---- MODULE Spec2Model ----
(***************************************************************************)
(* The job / application / engagement lifecycle of the job-assignment      *)
(* backend: controllers/application.controller.js, controllers/            *)
(* job.controller.js and the Mongoose models they use.                     *)
(*                                                                         *)
(* Every request handler is an async function.  Between two awaits the     *)
(* handler runs without interruption, and every awaited store call is one  *)
(* atomic operation of the store.  So a handler is modelled as a sequence  *)
(* of steps, one per awaited store call together with the synchronous code *)
(* that follows it up to the next await; steps of different requests       *)
(* interleave freely.  A populate() is read together with the document it  *)
(* populates.                                                              *)
(*                                                                         *)
(* Spec and SeqSpec start from one Open job and run the handlers of the    *)
(* applications and of the job (SeqSpec serves one request at a time and   *)
(* also runs updateJob); FaultSpec is SeqSpec with store calls and pushes  *)
(* that may fail; ScenarioSpec serves apply, accept, complete and rate     *)
(* requests one at a time; RateSpec starts from two accepted jobs and runs *)
(* the handlers of the engagement: rateJob, completeJob, cancelJob.        *)
(***************************************************************************)
EXTENDS Integers, Sequences, FiniteSets, Bags, TLC

(* ------------------------------ bounds -------------------------------- *)

\* The requests the server may be handling at the same time: every race of
\* the handlers is a race of two requests.
Procs == {1, 2}

\* Number of requests that arrive in one run when requests interleave.
MaxReqs == 4

\* Number of requests that arrive in one run when they are served in turn.
MaxSeqReqs == 6

\* The users of the system: one employer and two workers.
Users == {"e1", "w1", "w2"}

\* The users that have registered a device token (User.fcmToken).
HasToken == {"e1", "w1"}

\* The jobs in the store when the first request arrives; job id 0 is an id
\* no job has.
Jobs == {1}

JobIds == Jobs \cup {0}

VARIABLES
    jobs,           \* Job collection: id -> [status, applicantCount,
                    \* createdBy, title]
    applications,   \* JobApplication collection, in creation order (id = index)
    acceptedJobs,   \* AcceptedJob collection, in creation order (id = index);
                    \* a rating slot holds 0 while it is empty
    notifications,  \* Notification collection (a bag of records)
    pushes,         \* calls made to the push gateway (a bag of records)
    pc,             \* per request: the next awaited call of its handler
    req,            \* per request: [kind, caller, arg]
    loc,            \* per request: documents held in handler-local variables
    result,         \* per request: the response code sent
    dirty,          \* per request: it has committed a write to Job,
                    \* JobApplication, AcceptedJob or User
    started,        \* number of requests that have arrived
    users,          \* User collection: id -> [count, average] (User.rating)
    applied,        \* per user: how many ratings updateRating has been
                    \* called with for the user, and their sum
    emitted         \* per request: the Notification records it has stored,
                    \* the calls it has made to the push gateway and how
                    \* many of those calls failed

vars == <<jobs, applications, acceptedJobs, notifications, pushes,
          pc, req, loc, result, dirty, started, users, applied, emitted>>

\* The state only rateJob writes.
ratings == <<users, applied>>

\* User.rating.average is a quotient of integers; it is kept as the fraction
\* the division is given, so that no rounding enters the model.
NoAverage == [num |-> 0, den |-> 1]

\* User.rating of a new user: { average: 0, count: 0 }.
NoRating == [count |-> 0, average |-> NoAverage]

\* A request that has emitted nothing yet.
NoEmitted == [recorded |-> 0, pushCalls |-> 0, pushFailed |-> 0]

NoReq == [kind |-> "none", caller |-> "none", arg |-> 0, rating |-> 0]

\* jobSt: the status of the job document read; id: the id of the document
\* created; employerRating, workerRating: the rating slots of the engagement
\* read; user: the rating of the populated user the handler will update.
NoLoc == [jobSt |-> "none", id |-> 0, employerRating |-> 0,
          workerRating |-> 0, user |-> NoRating]

(* --------------------------- the store -------------------------------- *)

AppIds == DOMAIN applications

AcceptedIds == DOMAIN acceptedJobs

\* JobApplication.findOne({ jobId, applicantId })
FindApplication(j, u) ==
    {i \in AppIds : applications[i].jobId = j /\ applications[i].applicantId = u}

\* AcceptedJob.findOne({ jobId })
FindAccepted(j) == {i \in AcceptedIds : acceptedJobs[i].jobId = j}

\* A JobApplication collection whose compound index is not unique.
ApplicationIndexNotUnique(j, u) == FALSE

\* The unique compound index { jobId: 1, applicantId: 1 } of JobApplication:
\* TRUE when inserting (j, u) would duplicate a key.
ApplicationIndexRejects(j, u) == FindApplication(j, u) # {}

\* An AcceptedJob collection whose jobId index is not unique.
AcceptedJobIndexNotUnique(j) == FALSE

\* The unique index on AcceptedJob.jobId.
AcceptedJobIndexRejects(j) == FindAccepted(j) # {}

\* A bulk rejection whose filter matches the accepted application only.
RejectPendingOnlySelf(apps, j, except) ==
    [i \in DOMAIN apps |->
        IF apps[i].jobId = j /\ apps[i].status = "Applied" /\ i = except
        THEN [apps[i] EXCEPT !.status = "Rejected"]
        ELSE apps[i]]

\* JobApplication.updateMany({ jobId, status: 'Applied', _id: { $ne: except } },
\*                           { $set: { status: 'Rejected' } })
RejectPending(apps, j, except) ==
    [i \in DOMAIN apps |->
        IF apps[i].jobId = j /\ apps[i].status = "Applied" /\ i # except
        THEN [apps[i] EXCEPT !.status = "Rejected"]
        ELSE apps[i]]

\* A cancellation of the engagement that does not record who cancelled.
CancelActiveNoCaller(ajs, j, by) ==
    [i \in DOMAIN ajs |->
        IF ajs[i].jobId = j /\ ajs[i].status = "Active"
        THEN [ajs[i] EXCEPT !.status = "Cancelled"]
        ELSE ajs[i]]

\* AcceptedJob.updateMany({ jobId, status: 'Active' },
\*                        { $set: { status: 'Cancelled', cancelledBy } })
CancelActive(ajs, j, by) ==
    [i \in DOMAIN ajs |->
        IF ajs[i].jobId = j /\ ajs[i].status = "Active"
        THEN [ajs[i] EXCEPT !.status = "Cancelled", !.cancelledBy = by]
        ELSE ajs[i]]

\* The code a thrown error reaches the client with: an ApiError keeps its
\* code, the store's duplicate-key error (code 11000) becomes DUPLICATE_ERROR
\* and an error without a code (a store call that failed) SERVER_ERROR.
errorHandler(err) ==
    IF err = "E11000" THEN "DUPLICATE_ERROR"
    ELSE IF err = "MongoError" THEN "SERVER_ERROR"
    ELSE err

(* ------------------------ request plumbing ---------------------------- *)

InFlight(p) == pc[p] \notin {"idle", "done"}

Goto(p, l) == pc' = [pc EXCEPT ![p] = l] /\ started' = started

\* res.status(...).json(...) on the success path.
Respond(p) ==
    /\ pc' = [pc EXCEPT ![p] = "done"]
    /\ result' = [result EXCEPT ![p] = "OK"]
    /\ started' = started

\* throw ...: asyncHandler passes the error to errorHandler.
Throw(p, err) ==
    /\ pc' = [pc EXCEPT ![p] = "done"]
    /\ result' = [result EXCEPT ![p] = errorHandler(err)]
    /\ started' = started

Wrote(p) == dirty' = [dirty EXCEPT ![p] = TRUE]

Init ==
    /\ jobs = [j \in Jobs |-> [status |-> "Open", applicantCount |-> 0,
                               createdBy |-> "e1", title |-> "t0"]]
    /\ applications = <<>>
    /\ acceptedJobs = <<>>
    /\ notifications = EmptyBag
    /\ pushes = EmptyBag
    /\ pc = [p \in Procs |-> "idle"]
    /\ req = [p \in Procs |-> NoReq]
    /\ loc = [p \in Procs |-> NoLoc]
    /\ result = [p \in Procs |-> "none"]
    /\ dirty = [p \in Procs |-> FALSE]
    /\ started = 0
    /\ users = [u \in Users |-> NoRating]
    /\ applied = [u \in Users |-> [n |-> 0, sum |-> 0]]
    /\ emitted = [p \in Procs |-> NoEmitted]

\* The entry label of each handler.
Entry(kind) ==
    CASE kind = "apply"    -> "ap_job"
      [] kind = "accept"   -> "ha_app"
      [] kind = "reject"   -> "ha_app"
      [] kind = "withdraw" -> "wd_app"
      [] kind = "complete" -> "cj_find"
      [] kind = "cancel"   -> "cn_job"
      [] kind = "close"    -> "cl_job"
      [] kind = "update"   -> "ud_job"

\* The ids a request of this kind may name: a job, an application (0 and one
\* past the last are ids of no document) or an engagement.
Args(kind) ==
    CASE kind \in {"apply", "cancel", "close", "update"} -> JobIds
      [] kind \in {"accept", "reject", "withdraw"} -> 0..Len(applications)
      [] kind = "complete" -> 0..Len(acceptedJobs)

\* The routes that change the state of an application, of an engagement or
\* the status of a job.
Kinds == {"apply", "accept", "reject", "withdraw", "complete", "cancel", "close"}

\* The same routes and the route that edits a job.
JobKinds == Kinds \cup {"update"}

\* A request of one of the kinds arrives: an authenticated caller, a route
\* and the id it names.  It takes the lowest free slot.
Arrive(p, kinds) ==
    /\ ~InFlight(p)
    /\ \A q \in Procs : q < p => InFlight(q)
    /\ \E kind \in kinds, caller \in Users :
         \E arg \in Args(kind) :
            /\ req' = [req EXCEPT ![p] = [kind |-> kind, caller |-> caller,
                                          arg |-> arg, rating |-> 0]]
            /\ pc' = [pc EXCEPT ![p] = Entry(kind)]
    /\ loc' = [loc EXCEPT ![p] = NoLoc]
    /\ result' = [result EXCEPT ![p] = "none"]
    /\ dirty' = [dirty EXCEPT ![p] = FALSE]
    /\ emitted' = [emitted EXCEPT ![p] = NoEmitted]
    /\ started' = started + 1
    /\ UNCHANGED <<jobs, applications, acceptedJobs, notifications, pushes>>
    /\ UNCHANGED ratings

Start(p) == Arrive(p, Kinds)

JobStart(p) == Arrive(p, JobKinds)

(* ---------------------------- applyForJob ----------------------------- *)

\* An apply that tests the caller before the status of the job.
ApplyFindJobOwnerFirst(p) ==
    /\ pc[p] = "ap_job"
    /\ LET j == req[p].arg IN
         IF j \notin DOMAIN jobs THEN Throw(p, "JOB_NOT_FOUND")
         ELSE IF jobs[j].createdBy = req[p].caller THEN Throw(p, "OWN_JOB")
         ELSE IF jobs[j].status # "Open" THEN Throw(p, "JOB_CLOSED")
         ELSE Goto(p, "ap_find") /\ UNCHANGED result
    /\ UNCHANGED <<jobs, applications, acceptedJobs, notifications, pushes,
                   req, loc, dirty>>
    /\ UNCHANGED <<ratings, emitted>>

\* Job.findById(jobId).populate('createdBy') and the checks on the job.
ApplyFindJob(p) ==
    /\ pc[p] = "ap_job"
    /\ LET j == req[p].arg IN
         IF j \notin DOMAIN jobs THEN Throw(p, "JOB_NOT_FOUND")
         ELSE IF jobs[j].status # "Open" THEN Throw(p, "JOB_CLOSED")
         ELSE IF jobs[j].createdBy = req[p].caller THEN Throw(p, "OWN_JOB")
         ELSE Goto(p, "ap_find") /\ UNCHANGED result
    /\ UNCHANGED <<jobs, applications, acceptedJobs, notifications, pushes,
                   req, loc, dirty>>
    /\ UNCHANGED <<ratings, emitted>>

\* A duplicate check that overlooks the caller's Withdrawn application.
ApplyFindExistingNotWithdrawn(p) ==
    /\ pc[p] = "ap_find"
    /\ IF \E i \in FindApplication(req[p].arg, req[p].caller) :
             applications[i].status # "Withdrawn"
       THEN Throw(p, "ALREADY_APPLIED")
       ELSE Goto(p, "ap_create") /\ UNCHANGED result
    /\ UNCHANGED <<jobs, applications, acceptedJobs, notifications, pushes,
                   req, loc, dirty>>
    /\ UNCHANGED <<ratings, emitted>>

\* JobApplication.findOne({ jobId, applicantId }) and the duplicate check.
ApplyFindExisting(p) ==
    /\ pc[p] = "ap_find"
    /\ IF FindApplication(req[p].arg, req[p].caller) # {}
       THEN Throw(p, "ALREADY_APPLIED")
       ELSE Goto(p, "ap_create") /\ UNCHANGED result
    /\ UNCHANGED <<jobs, applications, acceptedJobs, notifications, pushes,
                   req, loc, dirty>>
    /\ UNCHANGED <<ratings, emitted>>

\* JobApplication.create({ jobId, applicantId, message }): status defaults
\* to Applied; the unique index rejects a second (jobId, applicantId).
ApplyCreate(p) ==
    /\ pc[p] = "ap_create"
    /\ IF ApplicationIndexRejects(req[p].arg, req[p].caller)
       THEN /\ Throw(p, "E11000")
            /\ UNCHANGED <<applications, loc, dirty>>
       ELSE /\ applications' = Append(applications,
                  [jobId |-> req[p].arg, applicantId |-> req[p].caller,
                   status |-> "Applied"])
            /\ loc' = [loc EXCEPT ![p].id = Len(applications) + 1]
            /\ Wrote(p)
            /\ Goto(p, "ap_inc")
            /\ UNCHANGED result
    /\ UNCHANGED <<jobs, acceptedJobs, notifications, pushes, req>>
    /\ UNCHANGED <<ratings, emitted>>

\* Job.findByIdAndUpdate(jobId, { $inc: { applicantCount: 1 } })
ApplyIncCount(p) ==
    /\ pc[p] = "ap_inc"
    /\ jobs' = [jobs EXCEPT ![req[p].arg].applicantCount = @ + 1]
    /\ Goto(p, "ap_notify")
    /\ UNCHANGED <<applications, acceptedJobs, notifications, pushes,
                   req, loc, result, dirty>>
    /\ UNCHANGED <<ratings, emitted>>

\* Notification.create(...) has stored one record for request p.
Stored(p) == emitted' = [emitted EXCEPT ![p].recorded = @ + 1]

\* Request p has called sendPushNotification(...) once; the call resolved
\* (ok) or it threw and the catch block logged the error.
Called(p, ok) ==
    emitted' = [emitted EXCEPT ![p].pushCalls = @ + 1,
                               ![p].pushFailed = @ + (IF ok THEN 0 ELSE 1)]

\* A handler that attempts the push whether the recipient has a device token
\* or not.
AfterNotifyAnyRecipient(p, to, l) == Goto(p, l) /\ UNCHANGED result

\* After Notification.create: the push is attempted only for a recipient
\* with a device token; otherwise the handler responds.
AfterNotify(p, to, l) ==
    IF to \in HasToken
    THEN Goto(p, l) /\ UNCHANGED result
    ELSE Respond(p)

\* Notification.create({ userId: job.createdBy, type: 'job_request', ... })
ApplyNotify(p) ==
    /\ pc[p] = "ap_notify"
    /\ LET j == req[p].arg
           to == jobs[j].createdBy IN
         /\ notifications' = notifications (+) SetToBag({
                [userId |-> to, type |-> "job_request", jobId |-> j,
                 applicationId |-> loc[p].id, acceptedJobId |-> 0]})
         /\ Goto(p, IF to \in HasToken THEN "ap_push" ELSE "ap_populate")
         /\ UNCHANGED result
    /\ UNCHANGED <<jobs, applications, acceptedJobs, pushes, req, loc, dirty>>
    /\ Stored(p)
    /\ UNCHANGED ratings

\* sendPushNotification(...) inside try/catch.
ApplyPush(p, ok) ==
    /\ pc[p] = "ap_push"
    /\ pushes' = pushes (+) SetToBag({
           [to |-> jobs[req[p].arg].createdBy, type |-> "job_request",
            jobId |-> req[p].arg]})
    /\ Goto(p, "ap_populate")
    /\ UNCHANGED <<jobs, applications, acceptedJobs, notifications,
                   req, loc, result, dirty>>
    /\ Called(p, ok)
    /\ UNCHANGED ratings

\* application.populate('applicantId', ...), then the response.
ApplyPopulate(p) ==
    /\ pc[p] = "ap_populate"
    /\ Respond(p)
    /\ UNCHANGED <<jobs, applications, acceptedJobs, notifications, pushes,
                   req, loc, dirty>>
    /\ UNCHANGED <<ratings, emitted>>

(* ------------------------- withdrawApplication ------------------------ *)

\* JobApplication.findById(applicationId) and the checks on it.
WithdrawFind(p) ==
    /\ pc[p] = "wd_app"
    /\ LET a == req[p].arg IN
         IF a \notin AppIds THEN Throw(p, "APPLICATION_NOT_FOUND")
         ELSE IF applications[a].applicantId # req[p].caller
              THEN Throw(p, "NOT_AUTHORIZED")
         ELSE IF applications[a].status # "Applied"
              THEN Throw(p, "CANNOT_WITHDRAW")
         ELSE Goto(p, "wd_save") /\ UNCHANGED result
    /\ UNCHANGED <<jobs, applications, acceptedJobs, notifications, pushes,
                   req, loc, dirty>>
    /\ UNCHANGED <<ratings, emitted>>

\* application.status = 'Withdrawn'; application.save(): the save sets the
\* modified path on the stored document, whatever its stored value is.
WithdrawSave(p) ==
    /\ pc[p] = "wd_save"
    /\ applications' = [applications EXCEPT ![req[p].arg].status = "Withdrawn"]
    /\ Wrote(p)
    /\ Goto(p, "wd_dec")
    /\ UNCHANGED <<jobs, acceptedJobs, notifications, pushes, req, loc, result>>
    /\ UNCHANGED <<ratings, emitted>>

\* A withdraw that leaves the applicantCount of the job as it is.
WithdrawDecCountSkipped(p) ==
    /\ pc[p] = "wd_dec"
    /\ Respond(p)
    /\ UNCHANGED <<jobs, applications, acceptedJobs, notifications, pushes,
                   req, loc, dirty>>
    /\ UNCHANGED <<ratings, emitted>>

\* Job.findByIdAndUpdate(application.jobId, { $inc: { applicantCount: -1 } })
WithdrawDecCount(p) ==
    /\ pc[p] = "wd_dec"
    /\ jobs' = [jobs EXCEPT ![applications[req[p].arg].jobId].applicantCount = @ - 1]
    /\ Respond(p)
    /\ UNCHANGED <<applications, acceptedJobs, notifications, pushes,
                   req, loc, dirty>>
    /\ UNCHANGED <<ratings, emitted>>

(* -------------------------- handleApplication ------------------------- *)

\* JobApplication.findById(applicationId).populate('jobId')
\* .populate('applicantId') and the checks shared by accept and reject.
HandleFind(p) ==
    /\ pc[p] = "ha_app"
    /\ LET a == req[p].arg IN
         IF a \notin AppIds
         THEN Throw(p, "APPLICATION_NOT_FOUND") /\ UNCHANGED loc
         ELSE IF jobs[applications[a].jobId].createdBy # req[p].caller
              THEN Throw(p, "NOT_AUTHORIZED") /\ UNCHANGED loc
         ELSE IF applications[a].status # "Applied"
              THEN Throw(p, "ALREADY_PROCESSED") /\ UNCHANGED loc
         ELSE /\ Goto(p, IF req[p].kind = "accept" THEN "ha_existing"
                                                   ELSE "rj_save")
              /\ loc' = [loc EXCEPT ![p].jobSt = jobs[applications[a].jobId].status]
              /\ UNCHANGED result
    /\ UNCHANGED <<jobs, applications, acceptedJobs, notifications, pushes,
                   req, dirty>>
    /\ UNCHANGED <<ratings, emitted>>

\* AcceptedJob.findOne({ jobId: job._id }) and the WORKER_EXISTS check.
AcceptFindExisting(p) ==
    /\ pc[p] = "ha_existing"
    /\ IF FindAccepted(applications[req[p].arg].jobId) # {}
       THEN Throw(p, "WORKER_EXISTS")
       ELSE Goto(p, "ha_save") /\ UNCHANGED result
    /\ UNCHANGED <<jobs, applications, acceptedJobs, notifications, pushes,
                   req, loc, dirty>>
    /\ UNCHANGED <<ratings, emitted>>

\* application.status = 'Accepted'; application.save()
AcceptSave(p) ==
    /\ pc[p] = "ha_save"
    /\ applications' = [applications EXCEPT ![req[p].arg].status = "Accepted"]
    /\ Wrote(p)
    /\ Goto(p, "ha_create")
    /\ UNCHANGED <<jobs, acceptedJobs, notifications, pushes, req, loc, result>>
    /\ UNCHANGED <<ratings, emitted>>

\* AcceptedJob.create({ jobId, workerId, employerId }): status defaults to
\* Active; the unique index on jobId rejects a second engagement of a job.
AcceptCreate(p) ==
    /\ pc[p] = "ha_create"
    /\ LET app == applications[req[p].arg] IN
         IF AcceptedJobIndexRejects(app.jobId)
         THEN /\ Throw(p, "E11000")
              /\ UNCHANGED <<acceptedJobs, loc>>
         ELSE /\ acceptedJobs' = Append(acceptedJobs,
                    [jobId |-> app.jobId, workerId |-> app.applicantId,
                     employerId |-> req[p].caller, status |-> "Active",
                     cancelledBy |-> "none", employerRating |-> 0,
                     workerRating |-> 0])
              /\ loc' = [loc EXCEPT ![p].id = Len(acceptedJobs) + 1]
              /\ Goto(p, "ha_job")
              /\ UNCHANGED result
    /\ UNCHANGED <<jobs, applications, notifications, pushes, req, dirty>>
    /\ UNCHANGED <<ratings, emitted>>

\* An accept that goes on to the bulk rejection without saving the job.
AcceptJobSaveSkipped(p) ==
    /\ pc[p] = "ha_job"
    /\ Goto(p, "ha_reject")
    /\ UNCHANGED <<jobs, applications, acceptedJobs, notifications, pushes,
                   req, loc, result, dirty>>
    /\ UNCHANGED <<ratings, emitted>>

\* job.status = 'InProgress'; job.save(): the save sets status when the
\* assignment changed it in the document read by HandleFind.
AcceptJobSave(p) ==
    /\ pc[p] = "ha_job"
    /\ jobs' = IF loc[p].jobSt # "InProgress"
               THEN [jobs EXCEPT ![applications[req[p].arg].jobId].status = "InProgress"]
               ELSE jobs
    /\ Goto(p, "ha_reject")
    /\ UNCHANGED <<applications, acceptedJobs, notifications, pushes,
                   req, loc, result, dirty>>
    /\ UNCHANGED <<ratings, emitted>>

\* JobApplication.updateMany({ jobId, status: 'Applied',
\*   _id: { $ne: applicationId } }, { $set: { status: 'Rejected' } })
AcceptRejectOthers(p) ==
    /\ pc[p] = "ha_reject"
    /\ applications' = RejectPending(applications,
                           applications[req[p].arg].jobId, req[p].arg)
    /\ Goto(p, "ha_notify")
    /\ UNCHANGED <<jobs, acceptedJobs, notifications, pushes,
                   req, loc, result, dirty>>
    /\ UNCHANGED <<ratings, emitted>>

\* An accept that also records a job_rejected notification for every other
\* applicant of the job.
AcceptNotifyEveryApplicant(p) ==
    /\ pc[p] = "ha_notify"
    /\ LET app == applications[req[p].arg] IN
         /\ notifications' = notifications (+) SetToBag(
                {[userId |-> app.applicantId, type |-> "job_accepted",
                  jobId |-> app.jobId, applicationId |-> req[p].arg,
                  acceptedJobId |-> loc[p].id]}
                \cup {[userId |-> applications[i].applicantId,
                        type |-> "job_rejected", jobId |-> app.jobId,
                        applicationId |-> i, acceptedJobId |-> 0] :
                          i \in {k \in AppIds : /\ k # req[p].arg
                                 /\ applications[k].jobId = app.jobId}})
         /\ AfterNotify(p, app.applicantId, "ha_push")
    /\ UNCHANGED <<jobs, applications, acceptedJobs, pushes, req, loc, dirty>>
    /\ Stored(p)
    /\ UNCHANGED ratings

\* Notification.create({ userId: applicant, type: 'job_accepted', ... })
AcceptNotify(p) ==
    /\ pc[p] = "ha_notify"
    /\ LET app == applications[req[p].arg] IN
         /\ notifications' = notifications (+) SetToBag({
                [userId |-> app.applicantId, type |-> "job_accepted",
                 jobId |-> app.jobId, applicationId |-> req[p].arg,
                 acceptedJobId |-> loc[p].id]})
         /\ AfterNotify(p, app.applicantId, "ha_push")
    /\ UNCHANGED <<jobs, applications, acceptedJobs, pushes, req, loc, dirty>>
    /\ Stored(p)
    /\ UNCHANGED ratings

\* sendPushNotification(...) inside try/catch, then the response.
AcceptPush(p, ok) ==
    /\ pc[p] = "ha_push"
    /\ LET app == applications[req[p].arg] IN
         pushes' = pushes (+) SetToBag({
             [to |-> app.applicantId, type |-> "job_accepted",
              jobId |-> app.jobId]})
    /\ Respond(p)
    /\ UNCHANGED <<jobs, applications, acceptedJobs, notifications,
                   req, loc, dirty>>
    /\ Called(p, ok)
    /\ UNCHANGED ratings

\* application.status = 'Rejected'; application.save()
RejectSave(p) ==
    /\ pc[p] = "rj_save"
    /\ applications' = [applications EXCEPT ![req[p].arg].status = "Rejected"]
    /\ Wrote(p)
    /\ Goto(p, "rj_notify")
    /\ UNCHANGED <<jobs, acceptedJobs, notifications, pushes, req, loc, result>>
    /\ UNCHANGED <<ratings, emitted>>

\* A reject whose notification is addressed to the owner of the job.
RejectNotifyOwner(p) ==
    /\ pc[p] = "rj_notify"
    /\ LET app == applications[req[p].arg] IN
         /\ notifications' = notifications (+) SetToBag({
                [userId |-> jobs[app.jobId].createdBy, type |-> "job_rejected",
                 jobId |-> app.jobId, applicationId |-> req[p].arg,
                 acceptedJobId |-> 0]})
         /\ AfterNotify(p, app.applicantId, "rj_push")
    /\ UNCHANGED <<jobs, applications, acceptedJobs, pushes, req, loc, dirty>>
    /\ Stored(p)
    /\ UNCHANGED ratings

\* Notification.create({ userId: applicant, type: 'job_rejected', ... })
RejectNotify(p) ==
    /\ pc[p] = "rj_notify"
    /\ LET app == applications[req[p].arg] IN
         /\ notifications' = notifications (+) SetToBag({
                [userId |-> app.applicantId, type |-> "job_rejected",
                 jobId |-> app.jobId, applicationId |-> req[p].arg,
                 acceptedJobId |-> 0]})
         /\ AfterNotify(p, app.applicantId, "rj_push")
    /\ UNCHANGED <<jobs, applications, acceptedJobs, pushes, req, loc, dirty>>
    /\ Stored(p)
    /\ UNCHANGED ratings

\* sendPushNotification(...) inside try/catch, then the response.
RejectPush(p, ok) ==
    /\ pc[p] = "rj_push"
    /\ LET app == applications[req[p].arg] IN
         pushes' = pushes (+) SetToBag({
             [to |-> app.applicantId, type |-> "job_rejected",
              jobId |-> app.jobId]})
    /\ Respond(p)
    /\ UNCHANGED <<jobs, applications, acceptedJobs, notifications,
                   req, loc, dirty>>
    /\ Called(p, ok)
    /\ UNCHANGED ratings

(* ----------------------------- completeJob ---------------------------- *)

\* AcceptedJob.findById(acceptedJobId).populate('jobId').populate('workerId')
\* and the checks on the engagement.
CompleteFind(p) ==
    /\ pc[p] = "cj_find"
    /\ LET e == req[p].arg IN
         IF e \notin AcceptedIds THEN Throw(p, "NOT_FOUND")
         ELSE IF acceptedJobs[e].employerId # req[p].caller
              THEN Throw(p, "NOT_AUTHORIZED")
         ELSE IF acceptedJobs[e].status # "Active"
              THEN Throw(p, "JOB_NOT_ACTIVE")
         ELSE Goto(p, "cj_save") /\ UNCHANGED result
    /\ UNCHANGED <<jobs, applications, acceptedJobs, notifications, pushes,
                   req, loc, dirty>>
    /\ UNCHANGED <<ratings, emitted>>

\* acceptedJob.status = 'Completed'; acceptedJob.save()
CompleteSave(p) ==
    /\ pc[p] = "cj_save"
    /\ acceptedJobs' = [acceptedJobs EXCEPT ![req[p].arg].status = "Completed"]
    /\ Wrote(p)
    /\ Goto(p, "cj_job")
    /\ UNCHANGED <<jobs, applications, notifications, pushes, req, loc, result>>
    /\ UNCHANGED <<ratings, emitted>>

\* A completion that leaves the Job as it is.
CompleteJobUpdateSkipped(p) ==
    /\ pc[p] = "cj_job"
    /\ Goto(p, "cj_notify")
    /\ UNCHANGED <<jobs, applications, acceptedJobs, notifications, pushes,
                   req, loc, result, dirty>>
    /\ UNCHANGED <<ratings, emitted>>

\* Job.findByIdAndUpdate(acceptedJob.jobId._id, { status: 'Completed' })
CompleteJobUpdate(p) ==
    /\ pc[p] = "cj_job"
    /\ jobs' = [jobs EXCEPT ![acceptedJobs[req[p].arg].jobId].status = "Completed"]
    /\ Goto(p, "cj_notify")
    /\ UNCHANGED <<applications, acceptedJobs, notifications, pushes,
                   req, loc, result, dirty>>
    /\ UNCHANGED <<ratings, emitted>>

\* Notification.create({ userId: worker, type: 'job_completed', ... })
CompleteNotify(p) ==
    /\ pc[p] = "cj_notify"
    /\ LET e == acceptedJobs[req[p].arg] IN
         /\ notifications' = notifications (+) SetToBag({
                [userId |-> e.workerId, type |-> "job_completed",
                 jobId |-> e.jobId, applicationId |-> 0,
                 acceptedJobId |-> req[p].arg]})
         /\ AfterNotify(p, e.workerId, "cj_push")
    /\ UNCHANGED <<jobs, applications, acceptedJobs, pushes, req, loc, dirty>>
    /\ Stored(p)
    /\ UNCHANGED ratings

\* sendPushNotification(...) inside try/catch, then the response.
CompletePush(p, ok) ==
    /\ pc[p] = "cj_push"
    /\ LET e == acceptedJobs[req[p].arg] IN
         pushes' = pushes (+) SetToBag({
             [to |-> e.workerId, type |-> "job_completed", jobId |-> e.jobId]})
    /\ Respond(p)
    /\ UNCHANGED <<jobs, applications, acceptedJobs, notifications,
                   req, loc, dirty>>
    /\ Called(p, ok)
    /\ UNCHANGED ratings

(* ------------------------------ cancelJob ----------------------------- *)

\* A cancelJob that does not look at the status of the job it cancels.
CancelFindAnyStatus(p) ==
    /\ pc[p] = "cn_job"
    /\ LET j == req[p].arg IN
         IF j \notin DOMAIN jobs THEN Throw(p, "JOB_NOT_FOUND") /\ UNCHANGED loc
         ELSE IF jobs[j].createdBy # req[p].caller
              THEN Throw(p, "NOT_AUTHORIZED") /\ UNCHANGED loc
         ELSE /\ Goto(p, "cn_save")
              /\ loc' = [loc EXCEPT ![p].jobSt = jobs[j].status]
              /\ UNCHANGED result
    /\ UNCHANGED <<jobs, applications, acceptedJobs, notifications, pushes,
                   req, dirty>>
    /\ UNCHANGED <<ratings, emitted>>

\* Job.findById(jobId) and the checks on the job.
CancelFind(p) ==
    /\ pc[p] = "cn_job"
    /\ LET j == req[p].arg IN
         IF j \notin DOMAIN jobs THEN Throw(p, "JOB_NOT_FOUND") /\ UNCHANGED loc
         ELSE IF jobs[j].createdBy # req[p].caller
              THEN Throw(p, "NOT_AUTHORIZED") /\ UNCHANGED loc
         ELSE IF jobs[j].status = "Cancelled"
              THEN Throw(p, "ALREADY_CANCELLED") /\ UNCHANGED loc
         ELSE /\ Goto(p, "cn_save")
              /\ loc' = [loc EXCEPT ![p].jobSt = jobs[j].status]
              /\ UNCHANGED result
    /\ UNCHANGED <<jobs, applications, acceptedJobs, notifications, pushes,
                   req, dirty>>
    /\ UNCHANGED <<ratings, emitted>>

\* job.status = 'Cancelled'; job.save()
CancelSave(p) ==
    /\ pc[p] = "cn_save"
    /\ jobs' = [jobs EXCEPT ![req[p].arg].status = "Cancelled"]
    /\ Wrote(p)
    /\ Goto(p, "cn_apps")
    /\ UNCHANGED <<applications, acceptedJobs, notifications, pushes,
                   req, loc, result>>
    /\ UNCHANGED <<ratings, emitted>>

\* JobApplication.updateMany({ jobId, status: 'Applied' },
\*                           { $set: { status: 'Rejected' } })
CancelRejectPending(p) ==
    /\ pc[p] = "cn_apps"
    /\ applications' = RejectPending(applications, req[p].arg, 0)
    /\ Goto(p, "cn_accepted")
    /\ UNCHANGED <<jobs, acceptedJobs, notifications, pushes,
                   req, loc, result, dirty>>
    /\ UNCHANGED <<ratings, emitted>>

\* A cascade that cancels the engagement of the job whatever its status.
CancelAcceptedAnyStatus(p) ==
    /\ pc[p] = "cn_accepted"
    /\ acceptedJobs' = [i \in DOMAIN acceptedJobs |->
                          IF acceptedJobs[i].jobId = req[p].arg
                          THEN [acceptedJobs[i] EXCEPT !.status = "Cancelled",
                                                       !.cancelledBy = req[p].caller]
                          ELSE acceptedJobs[i]]
    /\ Respond(p)
    /\ UNCHANGED <<jobs, applications, notifications, pushes, req, loc, dirty>>
    /\ UNCHANGED <<ratings, emitted>>

\* AcceptedJob.updateMany({ jobId, status: 'Active' }, { $set: { status:
\* 'Cancelled', cancelledBy: req.user._id, ... } }), then the response.
CancelAccepted(p) ==
    /\ pc[p] = "cn_accepted"
    /\ acceptedJobs' = CancelActive(acceptedJobs, req[p].arg, req[p].caller)
    /\ Respond(p)
    /\ UNCHANGED <<jobs, applications, notifications, pushes, req, loc, dirty>>
    /\ UNCHANGED <<ratings, emitted>>

(* ------------------------------- closeJob ----------------------------- *)

\* Job.findById(jobId) and the ownership check; no check on the status.
CloseFind(p) ==
    /\ pc[p] = "cl_job"
    /\ LET j == req[p].arg IN
         IF j \notin DOMAIN jobs THEN Throw(p, "JOB_NOT_FOUND") /\ UNCHANGED loc
         ELSE IF jobs[j].createdBy # req[p].caller
              THEN Throw(p, "NOT_AUTHORIZED") /\ UNCHANGED loc
         ELSE /\ Goto(p, "cl_save")
              /\ loc' = [loc EXCEPT ![p].jobSt = jobs[j].status]
              /\ UNCHANGED result
    /\ UNCHANGED <<jobs, applications, acceptedJobs, notifications, pushes,
                   req, dirty>>
    /\ UNCHANGED <<ratings, emitted>>

\* job.status = 'Closed'; job.save(): the save sets status when the
\* assignment changed it in the document read by CloseFind.
CloseSave(p) ==
    /\ pc[p] = "cl_save"
    /\ jobs' = IF loc[p].jobSt # "Closed"
               THEN [jobs EXCEPT ![req[p].arg].status = "Closed"]
               ELSE jobs
    /\ Wrote(p)
    /\ Goto(p, "cl_apps")
    /\ UNCHANGED <<applications, acceptedJobs, notifications, pushes,
                   req, loc, result>>
    /\ UNCHANGED <<ratings, emitted>>

\* JobApplication.updateMany({ jobId, status: 'Applied' },
\*   { $set: { status: 'Rejected' } }), then the response.
CloseRejectPending(p) ==
    /\ pc[p] = "cl_apps"
    /\ applications' = RejectPending(applications, req[p].arg, 0)
    /\ Respond(p)
    /\ UNCHANGED <<jobs, acceptedJobs, notifications, pushes, req, loc, dirty>>
    /\ UNCHANGED <<ratings, emitted>>

(* ------------------------------ updateJob ----------------------------- *)

\* The body of an update request: a new title, and values for two fields
\* the handler does not list among the fields it copies (the route's
\* validation lets a status of Open, Closed or Cancelled through).
EditBody == [title |-> "t1", status |-> "Closed", applicantCount |-> 7]

\* const allowedUpdates = [ 'title', ..., 'maxWorkers' ]
allowedUpdates ==
    {"title", "description", "startTime", "payment", "locationText",
     "locationGeo", "totalTime", "requiredSkills", "maxWorkers"}

\* updates: the fields of the body that are in allowedUpdates.
Updates(body) ==
    [f \in DOMAIN body \cap allowedUpdates |-> body[f]]

\* { $set: updates } on a job document.
SetFields(doc, updates) ==
    [f \in DOMAIN doc |-> IF f \in DOMAIN updates THEN updates[f] ELSE doc[f]]

\* job.status === 'Closed' || job.status === 'Completed'
NotEditable(status) == status = "Closed" \/ status = "Completed"

\* An updateJob that does not test who the caller is.
UpdateFindAnyCaller(p) ==
    /\ pc[p] = "ud_job"
    /\ LET j == req[p].arg IN
         IF j \notin DOMAIN jobs THEN Throw(p, "JOB_NOT_FOUND") /\ UNCHANGED loc
         ELSE IF NotEditable(jobs[j].status)
              THEN Throw(p, "JOB_NOT_EDITABLE") /\ UNCHANGED loc
         ELSE /\ loc' = [loc EXCEPT ![p].jobSt = jobs[j].status]
              /\ Goto(p, "ud_save")
              /\ UNCHANGED result
    /\ UNCHANGED <<jobs, applications, acceptedJobs, notifications, pushes,
                   req, dirty>>
    /\ UNCHANGED <<ratings, emitted>>

\* Job.findById(jobId) and the checks on the job.
UpdateFind(p) ==
    /\ pc[p] = "ud_job"
    /\ LET j == req[p].arg IN
         IF j \notin DOMAIN jobs THEN Throw(p, "JOB_NOT_FOUND") /\ UNCHANGED loc
         ELSE IF jobs[j].createdBy # req[p].caller
              THEN Throw(p, "NOT_AUTHORIZED") /\ UNCHANGED loc
         ELSE IF NotEditable(jobs[j].status)
              THEN Throw(p, "JOB_NOT_EDITABLE") /\ UNCHANGED loc
         ELSE /\ loc' = [loc EXCEPT ![p].jobSt = jobs[j].status]
              /\ Goto(p, "ud_save")
              /\ UNCHANGED result
    /\ UNCHANGED <<jobs, applications, acceptedJobs, notifications, pushes,
                   req, dirty>>
    /\ UNCHANGED <<ratings, emitted>>

\* Job.findByIdAndUpdate(jobId, { $set: updates }, ...), then the response.
UpdateSave(p) ==
    /\ pc[p] = "ud_save"
    /\ jobs' = [jobs EXCEPT ![req[p].arg] = SetFields(@, Updates(EditBody))]
    /\ Wrote(p)
    /\ Respond(p)
    /\ UNCHANGED <<applications, acceptedJobs, notifications, pushes, req, loc>>
    /\ UNCHANGED <<ratings, emitted>>

(* ------------------------------- rateJob ------------------------------ *)

\* The rating values a request may carry: 0 is a value the validation
\* refuses, the others are valid and distinct.
Ratings == {0, 3, 5}

\* validateRating on the route, which runs before rateJob and answers
\* VALIDATION_ERROR itself: body('rating').isInt({ min: 1, max: 5 })
validateRating(r) == r \in 1..5

\* !rating || rating < 1 || rating > 5
InvalidRating(r) == r = 0 \/ r < 1 \/ r > 5

\* A status check that lets every engagement be rated.
RateableAlways(status) == TRUE

\* acceptedJob.status !== 'Completed' refuses the rating.
Rateable(status) == status = "Completed"

\* A rating that is applied to the caller's own record.
RateTargetSelf(e, caller) == caller

\* The user whose record rateJob updates: the worker when the caller is the
\* employer (acceptedJob.workerId.updateRating), else the employer.
RateTarget(e, caller) ==
    IF acceptedJobs[e].employerId = caller
    THEN acceptedJobs[e].workerId
    ELSE acceptedJobs[e].employerId

\* An updateRating that computes the average and leaves the count as it is.
updateRatingKeepsCount(r, newRating) ==
    [count |-> r.count,
     average |-> [num |-> r.count * r.average.num + newRating * r.average.den,
                  den |-> r.average.den * (r.count + 1)]]

\* UserSchema.methods.updateRating on the user document the handler holds:
\*   totalRatings = count * average; count += 1;
\*   average = (totalRatings + newRating) / count
updateRating(r, newRating) ==
    [count |-> r.count + 1,
     average |-> [num |-> r.count * r.average.num + newRating * r.average.den,
                  den |-> r.average.den * (r.count + 1)]]

\* A save that writes the whole engagement as the handler read it.
SaveWholeEngagement(e, byEmployer, r, read) ==
    [acceptedJobs EXCEPT ![e] =
        [@ EXCEPT !.employerRating = IF byEmployer THEN r
                                     ELSE read.employerRating,
                  !.workerRating = IF byEmployer THEN read.workerRating
                                   ELSE r]]

\* acceptedJob.save() after the assignment of one rating slot: the save sets
\* the modified path, employerRating or workerRating, and no other.
SaveRatingSlot(e, byEmployer, r, read) ==
    [acceptedJobs EXCEPT ![e] =
        IF byEmployer THEN [@ EXCEPT !.employerRating = r]
                      ELSE [@ EXCEPT !.workerRating = r]]

\* The validation of the rating, AcceptedJob.findById(acceptedJobId)
\* .populate('workerId').populate('employerId'), the checks on the
\* engagement and the assignment of the caller's slot in the document held.
RateFind(p) ==
    /\ pc[p] = "rt_find"
    /\ LET e == req[p].arg
           c == req[p].caller IN
         IF InvalidRating(req[p].rating)
         THEN Throw(p, "INVALID_RATING") /\ UNCHANGED loc
         ELSE IF e \notin AcceptedIds
              THEN Throw(p, "NOT_FOUND") /\ UNCHANGED loc
         ELSE IF ~Rateable(acceptedJobs[e].status)
              THEN Throw(p, "JOB_NOT_COMPLETED") /\ UNCHANGED loc
         ELSE IF c # acceptedJobs[e].employerId /\ c # acceptedJobs[e].workerId
              THEN Throw(p, "NOT_AUTHORIZED") /\ UNCHANGED loc
         ELSE IF \/ c = acceptedJobs[e].employerId
                    /\ acceptedJobs[e].employerRating # 0
                 \/ c # acceptedJobs[e].employerId
                    /\ acceptedJobs[e].workerRating # 0
              THEN Throw(p, "ALREADY_RATED") /\ UNCHANGED loc
         ELSE /\ loc' = [loc EXCEPT
                    ![p].employerRating = acceptedJobs[e].employerRating,
                    ![p].workerRating = acceptedJobs[e].workerRating,
                    ![p].user = users[RateTarget(e, c)]]
              /\ Goto(p, "rt_user")
              /\ UNCHANGED result
    /\ UNCHANGED <<jobs, applications, acceptedJobs, notifications, pushes,
                   req, dirty, users, applied, emitted>>

\* acceptedJob.workerId.updateRating(rating) or acceptedJob.employerId
\* .updateRating(rating): the new count and average are computed from the
\* populated document and this.save() sets them on the stored user.
RateUpdateRating(p) ==
    /\ pc[p] = "rt_user"
    /\ LET u == RateTarget(req[p].arg, req[p].caller) IN
         /\ users' = [users EXCEPT ![u] = updateRating(loc[p].user,
                                                       req[p].rating)]
         /\ applied' = [applied EXCEPT ![u] =
                           [n |-> @.n + 1, sum |-> @.sum + req[p].rating]]
    /\ Wrote(p)
    /\ Goto(p, "rt_save")
    /\ UNCHANGED <<jobs, applications, acceptedJobs, notifications, pushes,
                   req, loc, result, emitted>>

\* acceptedJob.save(), then the response.
RateSave(p) ==
    /\ pc[p] = "rt_save"
    /\ LET e == req[p].arg IN
         acceptedJobs' = SaveRatingSlot(e,
                             acceptedJobs[e].employerId = req[p].caller,
                             req[p].rating, loc[p])
    /\ Respond(p)
    /\ UNCHANGED <<jobs, applications, notifications, pushes, req, loc,
                   dirty, users, applied, emitted>>

(* --------------------------- specifications --------------------------- *)

\* One step of the handler of request p.
Step(p) ==
    \/ ApplyFindJob(p)
    \/ ApplyFindExisting(p)
    \/ ApplyCreate(p)
    \/ ApplyIncCount(p)
    \/ ApplyNotify(p)
    \/ ApplyPush(p, TRUE)
    \/ ApplyPopulate(p)
    \/ WithdrawFind(p)
    \/ WithdrawSave(p)
    \/ WithdrawDecCount(p)
    \/ HandleFind(p)
    \/ AcceptFindExisting(p)
    \/ AcceptSave(p)
    \/ AcceptCreate(p)
    \/ AcceptJobSave(p)
    \/ AcceptRejectOthers(p)
    \/ AcceptNotify(p)
    \/ AcceptPush(p, TRUE)
    \/ RejectSave(p)
    \/ RejectNotify(p)
    \/ RejectPush(p, TRUE)
    \/ CompleteFind(p)
    \/ CompleteSave(p)
    \/ CompleteJobUpdate(p)
    \/ CompleteNotify(p)
    \/ CompletePush(p, TRUE)
    \/ CancelFind(p)
    \/ CancelSave(p)
    \/ CancelRejectPending(p)
    \/ CancelAccepted(p)
    \/ CloseFind(p)
    \/ CloseSave(p)
    \/ CloseRejectPending(p)

\* Requests arrive at any time and their steps interleave.
Next ==
    \E p \in Procs :
        \/ Start(p) /\ started < MaxReqs
        \/ Step(p)

Spec == Init /\ [][Next]_vars

\* One step of the handler of request p, the handler that edits a job
\* included.
JobStep(p) ==
    \/ Step(p)
    \/ UpdateFind(p)
    \/ UpdateSave(p)

\* Requests are served one at a time: a request arrives only when no other
\* request is being handled.
SeqNext ==
    \E p \in Procs :
        \/ JobStart(p) /\ started < MaxSeqReqs /\ \A q \in Procs : ~InFlight(q)
        \/ JobStep(p)

SeqSpec == Init /\ [][SeqNext]_vars

(* ------------------- store and push-gateway failures ------------------ *)

\* Number of requests that arrive in one run in which calls may fail.
MaxFaultReqs == 3

\* The labels at which a handler awaits a call of the store (a Mongoose
\* model or document method).
StoreCalls ==
    {"ap_job", "ap_find", "ap_create", "ap_inc", "ap_notify", "ap_populate",
     "wd_app", "wd_save", "wd_dec",
     "ha_app", "ha_existing", "ha_save", "ha_create", "ha_job", "ha_reject",
     "ha_notify", "rj_save", "rj_notify",
     "cj_find", "cj_save", "cj_job", "cj_notify",
     "cn_job", "cn_save", "cn_apps", "cn_accepted",
     "cl_job", "cl_save", "cl_apps",
     "ud_job", "ud_save"}

\* The awaited store call of request p rejects without having taken effect:
\* no handler catches the error, so asyncHandler passes it to errorHandler.
StoreFails(p) ==
    /\ pc[p] \in StoreCalls
    /\ Throw(p, "MongoError")
    /\ UNCHANGED <<jobs, applications, acceptedJobs, notifications, pushes,
                   req, loc, dirty>>
    /\ UNCHANGED <<ratings, emitted>>

\* getMessaging().send(message) rejects: sendPushNotification rethrows and
\* the catch block around the call logs the error.
PushFails(p) ==
    \/ ApplyPush(p, FALSE)
    \/ AcceptPush(p, FALSE)
    \/ RejectPush(p, FALSE)
    \/ CompletePush(p, FALSE)

\* Requests are served one at a time and any awaited call may fail.
FaultNext ==
    \E p \in Procs :
        \/ JobStart(p) /\ started < MaxFaultReqs /\ \A q \in Procs : ~InFlight(q)
        \/ JobStep(p)
        \/ StoreFails(p)
        \/ PushFails(p)

FaultSpec == Init /\ [][FaultNext]_vars

(* ------------------ from the application to the rating ---------------- *)

\* Number of requests that arrive in one run from apply to rate.
MaxScenarioReqs == 6

\* A request arrives at one of the routes a job passes through from its
\* first application to its rating: apply, accept, complete, or rate with a
\* rating the route has validated.
ScenarioStart(p) ==
    \/ Arrive(p, {"apply", "accept", "complete"})
    \/ /\ ~InFlight(p)
       /\ \A q \in Procs : q < p => InFlight(q)
       /\ \E caller \in Users, e \in 0..Len(acceptedJobs), r \in Ratings :
             /\ validateRating(r)
             /\ req' = [req EXCEPT ![p] = [kind |-> "rate", caller |-> caller,
                                           arg |-> e, rating |-> r]]
             /\ pc' = [pc EXCEPT ![p] = "rt_find"]
       /\ loc' = [loc EXCEPT ![p] = NoLoc]
       /\ result' = [result EXCEPT ![p] = "none"]
       /\ dirty' = [dirty EXCEPT ![p] = FALSE]
       /\ emitted' = [emitted EXCEPT ![p] = NoEmitted]
       /\ started' = started + 1
       /\ UNCHANGED <<jobs, applications, acceptedJobs, notifications, pushes,
                      users, applied>>

\* One step of the handler of such a request.
ScenarioStep(p) ==
    \/ ApplyFindJob(p)
    \/ ApplyFindExisting(p)
    \/ ApplyCreate(p)
    \/ ApplyIncCount(p)
    \/ ApplyNotify(p)
    \/ ApplyPush(p, TRUE)
    \/ ApplyPopulate(p)
    \/ HandleFind(p)
    \/ AcceptFindExisting(p)
    \/ AcceptSave(p)
    \/ AcceptCreate(p)
    \/ AcceptJobSave(p)
    \/ AcceptRejectOthers(p)
    \/ AcceptNotify(p)
    \/ AcceptPush(p, TRUE)
    \/ CompleteFind(p)
    \/ CompleteSave(p)
    \/ CompleteJobUpdate(p)
    \/ CompleteNotify(p)
    \/ CompletePush(p, TRUE)
    \/ RateFind(p)
    \/ RateUpdateRating(p)
    \/ RateSave(p)

\* The requests are served one at a time.
ScenarioNext ==
    \E p \in Procs :
        \/ /\ ScenarioStart(p)
           /\ started < MaxScenarioReqs
           /\ \A q \in Procs : ~InFlight(q)
        \/ ScenarioStep(p)

ScenarioSpec == Init /\ [][ScenarioNext]_vars

(* ------------------- the engagements and their ratings ---------------- *)

\* The requests that act on an engagement, from a state in which two jobs of
\* e1 have each been applied to by w1 and accepted, the first engagement has
\* been completed and the second one is Active or has been completed too.

\* Number of requests that arrive in one run of the engagement requests.
MaxRateReqs == 3

\* The jobs in the store when the first engagement request arrives.
RateJobs == {1, 2}

\* The notification each handler has recorded for job j by then.
Recorded(j, type) ==
    [userId |-> IF type = "job_request" THEN "e1" ELSE "w1", type |-> type,
     jobId |-> j,
     applicationId |-> IF type = "job_completed" THEN 0 ELSE j,
     acceptedJobId |-> IF type = "job_request" THEN 0 ELSE j]

\* The push each handler has sent for job j by then.
Pushed(j, type) ==
    [to |-> IF type = "job_request" THEN "e1" ELSE "w1", type |-> type,
     jobId |-> j]

\* The notification types recorded for a job whose engagement has status st.
TypesAt(st) ==
    IF st = "Completed" THEN {"job_request", "job_accepted", "job_completed"}
    ELSE {"job_request", "job_accepted"}

RateInit ==
    \E st \in {"Active", "Completed"} :
        LET stOf(j) == IF j = 1 THEN "Completed" ELSE st IN
        /\ jobs = [j \in RateJobs |->
                     [status |-> IF stOf(j) = "Active" THEN "InProgress"
                                 ELSE "Completed",
                      applicantCount |-> 1, createdBy |-> "e1",
                      title |-> "t0"]]
        /\ applications = [j \in RateJobs |->
                     [jobId |-> j, applicantId |-> "w1", status |-> "Accepted"]]
        /\ acceptedJobs = [j \in RateJobs |->
                     [jobId |-> j, workerId |-> "w1", employerId |-> "e1",
                      status |-> stOf(j), cancelledBy |-> "none",
                      employerRating |-> 0, workerRating |-> 0]]
        /\ notifications = SetToBag({Recorded(j, t) :
                               j \in RateJobs, t \in TypesAt(st)}
                             \cup {Recorded(1, "job_completed")})
        /\ pushes = SetToBag({Pushed(j, t) : j \in RateJobs, t \in TypesAt(st)}
                             \cup {Pushed(1, "job_completed")})
        /\ pc = [p \in Procs |-> "idle"]
        /\ req = [p \in Procs |-> NoReq]
        /\ loc = [p \in Procs |-> NoLoc]
        /\ result = [p \in Procs |-> "none"]
        /\ dirty = [p \in Procs |-> FALSE]
        /\ started = 0
        /\ users = [u \in Users |-> NoRating]
        /\ applied = [u \in Users |-> [n |-> 0, sum |-> 0]]
        /\ emitted = [p \in Procs |-> NoEmitted]
    /\ emitted = [p \in Procs |-> NoEmitted]

\* A request reaches its handler and takes the lowest free slot: a rate
\* request of any user, on an engagement or on an id of none, with a rating
\* the route has validated, or the employer's complete or cancel request,
\* which moves an engagement to another status.
RateStart(p) ==
    /\ ~InFlight(p)
    /\ \A q \in Procs : q < p => InFlight(q)
    /\ \/ \E caller \in Users, e \in 0..Len(acceptedJobs), r \in Ratings :
             /\ validateRating(r)
             /\ req' = [req EXCEPT ![p] = [kind |-> "rate", caller |-> caller,
                                           arg |-> e, rating |-> r]]
             /\ pc' = [pc EXCEPT ![p] = "rt_find"]
       \/ \E e \in AcceptedIds :
             /\ req' = [req EXCEPT ![p] = [kind |-> "complete",
                            caller |-> acceptedJobs[e].employerId,
                            arg |-> e, rating |-> 0]]
             /\ pc' = [pc EXCEPT ![p] = Entry("complete")]
       \/ \E j \in DOMAIN jobs :
             /\ req' = [req EXCEPT ![p] = [kind |-> "cancel",
                            caller |-> jobs[j].createdBy,
                            arg |-> j, rating |-> 0]]
             /\ pc' = [pc EXCEPT ![p] = Entry("cancel")]
    /\ loc' = [loc EXCEPT ![p] = NoLoc]
    /\ result' = [result EXCEPT ![p] = "none"]
    /\ dirty' = [dirty EXCEPT ![p] = FALSE]
    /\ emitted' = [emitted EXCEPT ![p] = NoEmitted]
    /\ started' = started + 1
    /\ UNCHANGED <<jobs, applications, acceptedJobs, notifications, pushes,
                   users, applied>>

\* One step of the handler of an engagement request.
RateStep(p) ==
    \/ RateFind(p)
    \/ RateUpdateRating(p)
    \/ RateSave(p)
    \/ CompleteFind(p)
    \/ CompleteSave(p)
    \/ CompleteJobUpdate(p)
    \/ CompleteNotify(p)
    \/ CompletePush(p, TRUE)
    \/ CancelFind(p)
    \/ CancelSave(p)
    \/ CancelRejectPending(p)
    \/ CancelAccepted(p)

RateNext ==
    \E p \in Procs :
        \/ RateStart(p) /\ started < MaxRateReqs
        \/ RateStep(p)

RateSpec == RateInit /\ [][RateNext]_vars

(* ------------------------------ properties ---------------------------- *)

Quiescent == \A p \in Procs : ~InFlight(p)

Done(p, kind) == pc[p] = "done" /\ req[p].kind = kind

AppsOf(j) == {i \in AppIds : applications[i].jobId = j}

Terminal == {"Accepted", "Rejected", "Withdrawn"}

\* The job of application a is engaged with a worker other than a's applicant:
\* an accept of another application of the job has won.
OtherAccepted(a) ==
    \E e \in FindAccepted(applications[a].jobId) :
        acceptedJobs[e].workerId # applications[a].applicantId

\* C1: in every reachable state, under any interleaving of the requests, at
\* most one AcceptedJob record exists for any given job.
C1_AtMostOneAcceptedJob ==
    \A j \in Jobs : Cardinality(FindAccepted(j)) <= 1

\* An accept passed the 'no AcceptedJob exists' read and then lost the
\* insert to a concurrent accept of another application of the same job.
C1_Witness ==
    \E p \in Procs :
        /\ Done(p, "accept")
        /\ result[p] = "DUPLICATE_ERROR"
        /\ OtherAccepted(req[p].arg)
        /\ Len(acceptedJobs) = 1

\* C2: of the accept requests by the owner on distinct Applied applications
\* of one job, exactly one returns success and every other one fails with
\* WORKER_EXISTS, also when all of them passed the 'no AcceptedJob exists'
\* read before any of them wrote.
C2_LosersGetWorkerExists ==
    /\ \A p \in Procs :
          (/\ Done(p, "accept")
           /\ result[p] \notin {"OK", "APPLICATION_NOT_FOUND",
                                "NOT_AUTHORIZED", "ALREADY_PROCESSED"}
           /\ OtherAccepted(req[p].arg))
          => result[p] = "WORKER_EXISTS"
    /\ \A p, q \in Procs :
          (/\ p # q
           /\ Done(p, "accept") /\ result[p] = "OK"
           /\ Done(q, "accept") /\ result[q] = "OK")
          => applications[req[p].arg].jobId # applications[req[q].arg].jobId

\* C3: accept is all-or-nothing: an accept request that fails because another
\* application of the job was accepted has committed no write, so its
\* application, the siblings, the Job and the AcceptedJob records are as they
\* were before it.
C3_FailedAcceptWroteNothing ==
    \A p \in Procs :
        (/\ Done(p, "accept")
         /\ result[p] \notin {"OK", "APPLICATION_NOT_FOUND"}
         /\ OtherAccepted(req[p].arg))
        => (~dirty[p] /\ applications[req[p].arg].status # "Accepted")

\* The accept request p returns success with this step.
AcceptReturns(p) ==
    /\ req[p].kind = "accept"
    /\ InFlight(p)
    /\ pc'[p] = "done"
    /\ result'[p] = "OK"

\* The state a successful accept of application a leaves.
AcceptPost(a) ==
    LET j == applications[a].jobId IN
        /\ applications[a].status = "Accepted"
        /\ \E e \in FindAccepted(j) : acceptedJobs[e].status = "Active"
        /\ jobs[j].status = "InProgress"
        /\ \A i \in AppsOf(j) \ {a} : applications[i].status # "Applied"

\* C4: when a successful accept of application A on job J returns, A is
\* Accepted, an Active AcceptedJob exists for J, J is InProgress and no other
\* application on J is Applied; every one that was Applied when the bulk
\* rejection ran is Rejected.
C4_AcceptPostcondition ==
    /\ [][\A p \in Procs : AcceptReturns(p) => AcceptPost(req[p].arg)']_vars
    /\ [][\A p \in Procs : pc[p] = "ha_reject" /\ pc'[p] # "ha_reject" =>
            \A i \in AppsOf(applications[req[p].arg].jobId) \ {req[p].arg} :
                applications[i].status = "Applied"
                    => applications'[i].status = "Rejected"]_vars

\* An accept has returned success and a sibling application that no reject
\* request handled (no job_rejected notification exists) is Rejected.
C4_Witness ==
    \E p \in Procs :
        /\ Done(p, "accept")
        /\ result[p] = "OK"
        /\ AcceptPost(req[p].arg)
        /\ \E i \in AppIds \ {req[p].arg} : applications[i].status = "Rejected"
        /\ \A n \in BagToSet(notifications) : n.type # "job_rejected"

\* C5: once a JobApplication is Accepted, Rejected or Withdrawn its status
\* never changes again.
C5_TerminalStatusIsFinal ==
    [][\A i \in AppIds :
          applications[i].status \in Terminal
              => applications'[i].status = applications[i].status]_vars

\* The changes of Job.status the lifecycle allows.
JobTransitions ==
    {<<"Open", "InProgress">>, <<"InProgress", "Completed">>,
     <<"Open", "Closed">>, <<"Open", "Cancelled">>,
     <<"InProgress", "Cancelled">>}

\* C6: every change of Job.status is one of Open -> InProgress, InProgress ->
\* Completed, Open -> Closed, Open -> Cancelled, InProgress -> Cancelled; a
\* Closed, Cancelled or Completed job never changes status again.
C6_JobStatusMonotonic ==
    [][\A j \in Jobs :
          jobs'[j].status # jobs[j].status
              => <<jobs[j].status, jobs'[j].status>> \in JobTransitions]_vars

\* C7: when no request is in flight, a Job is InProgress only if an
\* AcceptedJob exists for it, and an Active AcceptedJob exists only for a Job
\* that is InProgress.
C7_JobMatchesEngagement ==
    Quiescent =>
        /\ \A j \in Jobs :
              jobs[j].status = "InProgress" => FindAccepted(j) # {}
        /\ \A e \in AcceptedIds :
              acceptedJobs[e].status = "Active"
                  => jobs[acceptedJobs[e].jobId].status = "InProgress"

\* C8: in every reachable state there is at most one JobApplication for any
\* pair (jobId, applicantId), also when two applies of one worker to one job
\* both pass the 'no existing application' read.
C8_OneApplicationPerPair ==
    \A j \in Jobs, u \in Users : Cardinality(FindApplication(j, u)) <= 1

\* An apply passed the 'no existing application' read and then lost the
\* insert to a concurrent apply of the same worker to the same job.
C8_Witness ==
    \E p \in Procs :
        /\ Done(p, "apply")
        /\ result[p] = "DUPLICATE_ERROR"
        /\ Cardinality(FindApplication(req[p].arg, req[p].caller)) = 1

\* C9: an apply by a worker who already has an application on the job fails
\* with ALREADY_APPLIED (DuplicateApplication) and has written nothing, also
\* when it is the loser of two concurrent applies.
C9_SecondApplyAlreadyApplied ==
    \A p \in Procs :
        (/\ Done(p, "apply")
         /\ result[p] \notin {"OK", "JOB_NOT_FOUND", "JOB_CLOSED", "OWN_JOB"})
        => (result[p] = "ALREADY_APPLIED" /\ ~dirty[p])

\* C10: when no apply or withdraw request is in flight, Job.applicantCount
\* is the number of the job's applications that are not Withdrawn.
C10_ApplicantCountExact ==
    (\A p \in Procs : InFlight(p) => req[p].kind \notin {"apply", "withdraw"})
        => \A j \in Jobs :
              jobs[j].applicantCount =
                  Cardinality({i \in AppsOf(j) :
                                  applications[i].status # "Withdrawn"})

(* ------------------------- properties of rateJob ---------------------- *)

\* The rate request p names an engagement and carries a valid rating.
RatesEngagement(p) ==
    /\ req[p].kind = "rate"
    /\ req[p].arg \in AcceptedIds
    /\ ~InvalidRating(req[p].rating)

ByEmployer(p) == acceptedJobs[req[p].arg].employerId = req[p].caller

ByWorker(p) == acceptedJobs[req[p].arg].workerId = req[p].caller

\* The rating slot of the caller of p, in the stored engagement.
OwnSlot(p) ==
    IF ByEmployer(p) THEN acceptedJobs[req[p].arg].employerRating
                     ELSE acceptedJobs[req[p].arg].workerRating

\* The number of filled rating slots whose rating is about user u.
SlotsAbout(u) ==
    Cardinality({e \in AcceptedIds :
                    acceptedJobs[e].workerId = u
                        /\ acceptedJobs[e].employerRating # 0})
    + Cardinality({e \in AcceptedIds :
                    acceptedJobs[e].employerId = u
                        /\ acceptedJobs[e].workerRating # 0})

\* C11: each rating slot of an AcceptedJob is written at most once: a filled
\* slot never changes its value, and a rate request of a party whose slot is
\* filled does not return success, also when two rate requests of one party
\* run concurrently.
C11_RatingSlotWrittenOnce ==
    /\ [][\A e \in AcceptedIds :
            /\ acceptedJobs[e].employerRating # 0
                  => acceptedJobs'[e].employerRating
                         = acceptedJobs[e].employerRating
            /\ acceptedJobs[e].workerRating # 0
                  => acceptedJobs'[e].workerRating
                         = acceptedJobs[e].workerRating]_vars
    /\ [][\A p \in Procs :
            (/\ RatesEngagement(p) /\ InFlight(p)
             /\ pc'[p] = "done" /\ result'[p] = "OK")
            => OwnSlot(p) = 0]_vars

\* C12: the Rating Aggregator is applied exactly once per filled rating
\* slot: when no rate request is in flight, each user's rating.count is the
\* number of filled rating slots about that user, also after two rate
\* requests have run concurrently.
C12_CountMatchesFilledSlots ==
    (\A p \in Procs : InFlight(p) => req[p].kind # "rate")
        => \A u \in Users : users[u].count = SlotsAbout(u)

\* C13: for every user, after k ratings r1..rk have been applied through
\* updateRating, in any interleaving of the rate requests, rating.count = k
\* and rating.average * k = r1 + ... + rk.
C13_AverageIsMeanOfApplied ==
    \A u \in Users :
        /\ users[u].count = applied[u].n
        /\ users[u].average.num * applied[u].n
               = applied[u].sum * users[u].average.den

\* C14: a user's rating.count never decreases from one state to the next,
\* also when several rate requests about the same user read the user record
\* before any of them writes it back.
C14_CountNeverDecreases ==
    [][\A u \in Users : users'[u].count >= users[u].count]_vars

\* What a step of the rate request p may change when it rates the user
\* target and owns the slot named: that user's rating, that slot of the
\* engagement, and nothing else in the store.
RateFrame(p, target, ownIsEmployerSlot) ==
    LET e == req[p].arg IN
        /\ \A u \in Users \ {target} : users'[u] = users[u]
        /\ \A x \in AcceptedIds \ {e} : acceptedJobs'[x] = acceptedJobs[x]
        /\ IF ownIsEmployerSlot
           THEN acceptedJobs' = [acceptedJobs EXCEPT ![e].employerRating =
                                    acceptedJobs'[e].employerRating]
           ELSE acceptedJobs' = [acceptedJobs EXCEPT ![e].workerRating =
                                    acceptedJobs'[e].workerRating]
        /\ UNCHANGED <<jobs, applications, notifications, pushes>>

\* C15: ratings are exchanged: a rate by the employer changes only the
\* worker's rating aggregate and the employerRating slot, a rate by the worker
\* only the employer's aggregate and the workerRating slot; the caller's own
\* aggregate and the other slot are unchanged.
C15_RatingsAreExchanged ==
    [][\A p \in Procs :
          (/\ RatesEngagement(p)
           /\ pc[p] \in {"rt_find", "rt_user", "rt_save"}
           /\ pc'[p] # pc[p])
          => /\ ByEmployer(p) =>
                   RateFrame(p, acceptedJobs[req[p].arg].workerId, TRUE)
             /\ ByWorker(p) =>
                   RateFrame(p, acceptedJobs[req[p].arg].employerId, FALSE)]_vars

\* A rate by the employer has returned success: the worker's aggregate counts
\* it, the employer's own aggregate and the workerRating slot are untouched.
C15_Witness ==
    \E p \in Procs :
        /\ Done(p, "rate") /\ result[p] = "OK"
        /\ RatesEngagement(p) /\ ByEmployer(p)
        /\ acceptedJobs[req[p].arg].employerRating = req[p].rating
        /\ acceptedJobs[req[p].arg].workerRating = 0
        /\ users[acceptedJobs[req[p].arg].workerId].count = 1
        /\ users[req[p].caller].count = 0

\* The requests p and q are the only two that have arrived, both have
\* returned, and they are the employer's and the worker's rate of one
\* Completed engagement.
BothRated(p, q) ==
    /\ started = 2
    /\ Done(p, "rate") /\ Done(q, "rate")
    /\ RatesEngagement(p) /\ RatesEngagement(q)
    /\ req[p].arg = req[q].arg
    /\ acceptedJobs[req[p].arg].status = "Completed"
    /\ ByEmployer(p) /\ ByWorker(q)

\* C16: on a Completed engagement with both rating slots empty, a rate by the
\* employer and a rate by the worker both succeed, in either order and also
\* when they run concurrently, and leave one final state: both slots filled
\* with the ratings given and each party's aggregate updated once.
C16_BothPartiesRate ==
    \A p, q \in Procs :
        BothRated(p, q) =>
            LET e == acceptedJobs[req[p].arg] IN
                /\ result[p] = "OK" /\ result[q] = "OK"
                /\ e.employerRating = req[p].rating
                /\ e.workerRating = req[q].rating
                /\ users[e.workerId] = updateRating(NoRating, req[p].rating)
                /\ users[e.employerId] = updateRating(NoRating, req[q].rating)

\* The two rates ran concurrently: each read the engagement while the other
\* party's slot was still empty.
C16_Witness ==
    \E p, q \in Procs :
        /\ BothRated(p, q)
        /\ result[p] = "OK" /\ result[q] = "OK"
        /\ loc[p].workerRating = 0
        /\ loc[q].employerRating = 0
        /\ acceptedJobs[req[p].arg].employerRating # 0
        /\ acceptedJobs[req[p].arg].workerRating # 0

\* C17: a rate request on an engagement whose status is not Completed fails
\* with JOB_NOT_COMPLETED and leaves both rating slots and both users' rating
\* aggregates unchanged; hence no rating slot is ever filled on an engagement
\* that is not Completed.
C17_OnlyCompletedIsRated ==
    /\ [](\A e \in AcceptedIds :
            (acceptedJobs[e].employerRating # 0
                \/ acceptedJobs[e].workerRating # 0)
            => acceptedJobs[e].status = "Completed")
    /\ [][\A p \in Procs :
            (/\ RatesEngagement(p)
             /\ pc[p] = "rt_find" /\ pc'[p] # "rt_find"
             /\ acceptedJobs[req[p].arg].status # "Completed")
            => /\ pc'[p] = "done"
               /\ result'[p] = "JOB_NOT_COMPLETED"
               /\ ~dirty'[p]
               /\ UNCHANGED <<acceptedJobs, users>>]_vars

\* A rate request by a party of an engagement that is Active or Cancelled has
\* been refused, and the engagement and the users are unrated.
C17_Witness ==
    \E p \in Procs :
        /\ Done(p, "rate") /\ RatesEngagement(p)
        /\ ByEmployer(p) \/ ByWorker(p)
        /\ acceptedJobs[req[p].arg].status \in {"Active", "Cancelled"}
        /\ result[p] = "JOB_NOT_COMPLETED"
        /\ acceptedJobs[req[p].arg].employerRating = 0
        /\ acceptedJobs[req[p].arg].workerRating = 0
        /\ \A u \in Users : users[u] = NoRating

\* C18: a rate request by a caller who is neither the worker nor the employer
\* of the engagement fails with NOT_AUTHORIZED (Forbidden) and changes no
\* state, whatever the engagement's status.
C18_OutsiderIsForbidden ==
    \A p \in Procs :
        (/\ Done(p, "rate") /\ RatesEngagement(p)
         /\ ~ByEmployer(p) /\ ~ByWorker(p))
        => (result[p] = "NOT_AUTHORIZED" /\ ~dirty[p])

(* ----------------- properties of completeJob and cancelJob ------------ *)

\* The request p of this kind returns success with this step.
Returns(p, kind) ==
    /\ req[p].kind = kind
    /\ InFlight(p)
    /\ pc'[p] = "done"
    /\ result'[p] = "OK"

\* C19: complete succeeds only when the caller is the engagement's employer
\* and the engagement is Active; when a successful complete returns, the
\* AcceptedJob and its Job are both Completed; a complete on an engagement
\* that is not Active fails and changes neither the engagement nor the Job.
C19_CompletePostcondition ==
    /\ [][\A p \in Procs :
            Returns(p, "complete") =>
                /\ acceptedJobs'[req[p].arg].status = "Completed"
                /\ jobs'[acceptedJobs'[req[p].arg].jobId].status = "Completed"
                /\ acceptedJobs[req[p].arg].employerId = req[p].caller]_vars
    /\ [][\A p \in Procs :
            (/\ req[p].kind = "complete" /\ req[p].arg \in AcceptedIds
             /\ pc[p] = "cj_find" /\ pc'[p] # "cj_find")
            => IF /\ acceptedJobs[req[p].arg].status = "Active"
                  /\ acceptedJobs[req[p].arg].employerId = req[p].caller
               THEN pc'[p] = "cj_save"
               ELSE /\ pc'[p] = "done"
                    /\ result'[p] \in {"NOT_AUTHORIZED", "JOB_NOT_ACTIVE"}
                    /\ UNCHANGED <<acceptedJobs, jobs>>]_vars
    /\ [](\A p \in Procs :
            Done(p, "complete") /\ result[p] # "OK" => ~dirty[p])

\* A complete by the employer has returned success on an engagement of a job
\* that was InProgress: the engagement and the job are Completed.
C19_Witness ==
    \E p \in Procs :
        /\ Done(p, "complete") /\ result[p] = "OK"
        /\ dirty[p]
        /\ acceptedJobs[req[p].arg].status = "Completed"
        /\ jobs[acceptedJobs[req[p].arg].jobId].status = "Completed"

\* C20: when a successful cancel of job J by its owner returns, Job.status is
\* Cancelled, no application on J is Applied (every one that was Applied when
\* the bulk rejection ran is Rejected), and every AcceptedJob of J that was
\* Active is Cancelled with cancelledBy equal to the caller.
C20_CancelPostcondition ==
    /\ [][\A p \in Procs :
            Returns(p, "cancel") =>
                /\ jobs'[req[p].arg].status = "Cancelled"
                /\ jobs[req[p].arg].createdBy = req[p].caller
                /\ \A i \in AppIds :
                      applications'[i].jobId = req[p].arg
                          => applications'[i].status # "Applied"
                /\ \A e \in AcceptedIds :
                      acceptedJobs'[e].jobId = req[p].arg
                          => acceptedJobs'[e].status # "Active"]_vars
    /\ [][\A p \in Procs :
            (req[p].kind = "cancel" /\ pc[p] = "cn_apps" /\ pc'[p] # "cn_apps")
            => \A i \in AppIds :
                  (applications[i].jobId = req[p].arg
                      /\ applications[i].status = "Applied")
                  => applications'[i].status = "Rejected"]_vars
    /\ [][\A p \in Procs :
            (req[p].kind = "cancel" /\ pc[p] = "cn_accepted"
                /\ pc'[p] # "cn_accepted")
            => \A e \in AcceptedIds :
                  (acceptedJobs[e].jobId = req[p].arg
                      /\ acceptedJobs[e].status = "Active")
                  => /\ acceptedJobs'[e].status = "Cancelled"
                     /\ acceptedJobs'[e].cancelledBy = req[p].caller]_vars

\* A cancel by the owner has returned success on a job with an engagement:
\* the job is Cancelled and the engagement is Cancelled by the caller.
C20_Witness ==
    \E p \in Procs :
        /\ Done(p, "cancel") /\ result[p] = "OK"
        /\ jobs[req[p].arg].status = "Cancelled"
        /\ \E e \in FindAccepted(req[p].arg) :
              /\ acceptedJobs[e].status = "Cancelled"
              /\ acceptedJobs[e].cancelledBy = req[p].caller

(* ---------------------- properties of cancelJob ----------------------- *)

\* The request p of this kind leaves its label l with this step.
Leaves(p, kind, l) == req[p].kind = kind /\ pc[p] = l /\ pc'[p] # l

\* C21: the cancel cascade is all-or-nothing: when a cancelJob request has
\* failed partway (a store call failed after the checks on the job passed),
\* the Job's status is the one the request read, and the request has
\* committed no write.
C21_CancelAllOrNothing ==
    \A p \in Procs :
        (Done(p, "cancel") /\ result[p] = "SERVER_ERROR"
            /\ loc[p].jobSt # "none")
        => /\ jobs[req[p].arg].status = loc[p].jobSt
           /\ ~dirty[p]

\* C22 as stated: a cancelJob request of any caller on a job whose status is
\* already Cancelled fails with ALREADY_CANCELLED and leaves the Job, its
\* applications and its engagement unchanged.
C22_CancelOfCancelledConflicts ==
    [][\A p \in Procs :
          (/\ Leaves(p, "cancel", "cn_job")
           /\ req[p].arg \in DOMAIN jobs
           /\ jobs[req[p].arg].status = "Cancelled")
          => /\ pc'[p] = "done"
             /\ result'[p] = "ALREADY_CANCELLED"
             /\ UNCHANGED <<jobs, applications, acceptedJobs>>]_vars

\* C22 amended: a cancelJob request on a job whose status is already
\* Cancelled fails, with ALREADY_CANCELLED when the caller is the job's owner
\* and with NOT_AUTHORIZED otherwise, and leaves the Job, its applications
\* and its engagement unchanged; a cancel that has failed so has committed
\* no write.
C22_OwnerCancelOfCancelledConflicts ==
    /\ [][\A p \in Procs :
            (/\ Leaves(p, "cancel", "cn_job")
             /\ req[p].arg \in DOMAIN jobs
             /\ jobs[req[p].arg].status = "Cancelled")
            => /\ pc'[p] = "done"
               /\ result'[p] = IF jobs[req[p].arg].createdBy = req[p].caller
                               THEN "ALREADY_CANCELLED"
                               ELSE "NOT_AUTHORIZED"
               /\ UNCHANGED <<jobs, applications, acceptedJobs>>]_vars
    /\ [](\A p \in Procs :
            (Done(p, "cancel")
                /\ result[p] \in {"ALREADY_CANCELLED", "NOT_AUTHORIZED"})
            => ~dirty[p])

\* The owner's second cancel of a job has been refused: the job is Cancelled.
C22_Witness ==
    \E p \in Procs :
        /\ Done(p, "cancel") /\ result[p] = "ALREADY_CANCELLED"
        /\ jobs[req[p].arg].status = "Cancelled"
        /\ jobs[req[p].arg].createdBy = req[p].caller

(* -------------------- properties of the notifications ----------------- *)

\* The labels at which a handler awaits Notification.create, and those at
\* which it awaits sendPushNotification.
NotifyLabels == {"ap_notify", "ha_notify", "rj_notify", "cj_notify"}

PushLabels == {"ap_push", "ha_push", "rj_push", "cj_push"}

\* Request p is being handled and takes a step.
Steps(p) == InFlight(p) /\ pc'[p] # pc[p]

\* C23: a failure to record the Notification or to deliver the push never
\* makes apply, accept, reject or complete report failure: a request that
\* ends while it awaits Notification.create or sendPushNotification, its
\* state mutation committed, ends with success.
C23_NotifyFailureIsSwallowed ==
    [][\A p \in Procs :
          (/\ pc[p] \in NotifyLabels \cup PushLabels
           /\ dirty[p]
           /\ pc'[p] = "done")
          => result'[p] = "OK"]_vars

\* C24: a successful accept has recorded exactly one notification; the only
\* notification a step of an accept request records is of type job_accepted
\* and addressed to the applicant of the accepted application, so the
\* applicants rejected by the cascade receive none from it.
C24_AcceptNotifiesTheWorkerOnly ==
    /\ [](\A p \in Procs :
            /\ (Done(p, "accept") /\ result[p] = "OK")
                   => emitted[p].recorded = 1
            /\ req[p].kind = "accept" => emitted[p].recorded <= 1)
    /\ [][\A p \in Procs :
            (Steps(p) /\ req[p].kind = "accept")
            => \/ notifications' = notifications
               \/ /\ pc[p] = "ha_notify"
                  /\ LET a == req[p].arg IN
                       notifications' = notifications (+) SetToBag({
                           [userId |-> applications[a].applicantId,
                            type |-> "job_accepted",
                            jobId |-> applications[a].jobId,
                            applicationId |-> a,
                            acceptedJobId |-> loc[p].id]})]_vars

\* An accept has returned success and its cascade has rejected the
\* application of another applicant: one job_accepted notification is stored
\* for the accepted worker and no job_rejected one for the other applicant.
C24_Witness ==
    \E p \in Procs :
        /\ Done(p, "accept") /\ result[p] = "OK"
        /\ emitted[p].recorded = 1
        /\ LET a == req[p].arg IN
             /\ \E n \in BagToSet(notifications) :
                   /\ n.type = "job_accepted"
                   /\ n.userId = applications[a].applicantId
                   /\ n.applicationId = a
             /\ \E i \in AppsOf(applications[a].jobId) \ {a} :
                   /\ applications[i].status = "Rejected"
                   /\ \A n \in BagToSet(notifications) :
                         n.userId = applications[i].applicantId
                             => n.type # "job_rejected"

\* The Notification record the handler of request p stores: its type and
\* recipient follow from the route and from the document the request names.
NotificationOf(p) ==
    LET a == req[p].arg IN
    CASE req[p].kind = "apply" ->
            [userId |-> jobs[a].createdBy, type |-> "job_request",
             jobId |-> a, applicationId |-> loc[p].id, acceptedJobId |-> 0]
      [] req[p].kind = "reject" ->
            [userId |-> applications[a].applicantId, type |-> "job_rejected",
             jobId |-> applications[a].jobId, applicationId |-> a,
             acceptedJobId |-> 0]
      [] req[p].kind = "complete" ->
            [userId |-> acceptedJobs[a].workerId, type |-> "job_completed",
             jobId |-> acceptedJobs[a].jobId, applicationId |-> 0,
             acceptedJobId |-> a]

NotificationsFor(x) ==
    LET match == {n \in BagToSet(notifications) :
                     /\ n.userId = x.to
                     /\ n.type = x.type
                     /\ n.jobId = x.jobId}
    IN BagCardinality([n \in match |-> CopiesIn(n, notifications)])

\* C26: the push gateway is called at most once for each notification, only
\* after the Notification record has been stored and only for a recipient
\* with a device token; a request whose push failed makes no further call.
C26_PushAtMostOnceAfterRecord ==
    /\ [](\A p \in Procs :
            /\ emitted[p].pushCalls <= emitted[p].recorded
            /\ emitted[p].pushCalls <= 1
            /\ emitted[p].pushFailed <= emitted[p].pushCalls)
    /\ [](\A x \in BagToSet(pushes) :
            /\ x.to \in HasToken
            /\ CopiesIn(x, pushes) <= NotificationsFor(x))
    /\ [][\A p \in Procs :
            (Steps(p) /\ pushes' # pushes)
            => /\ pc[p] \in PushLabels
               /\ emitted[p].recorded = 1
               /\ emitted[p].pushCalls = 0
               /\ BagCardinality(pushes') = BagCardinality(pushes) + 1]_vars

\* A request has returned success although its one call of the push gateway
\* failed, and a request has returned success without a call, its
\* notification recorded for a user with no device token.
C26_Witness ==
    /\ \E p \in Procs :
          /\ pc[p] = "done" /\ result[p] = "OK"
          /\ emitted[p].recorded = 1
          /\ emitted[p].pushCalls = 1
          /\ emitted[p].pushFailed = 1
    /\ \E n \in BagToSet(notifications) : n.userId \notin HasToken

(* ---------------- properties of apply, withdraw and updateJob --------- *)

\* The order in which applyForJob makes its awaited calls.
ApplyOrder ==
    {<<"ap_job", "ap_find">>, <<"ap_find", "ap_create">>,
     <<"ap_create", "ap_inc">>, <<"ap_inc", "ap_notify">>,
     <<"ap_notify", "ap_push">>, <<"ap_notify", "ap_populate">>,
     <<"ap_push", "ap_populate">>}

\* C27: apply fails with JOB_NOT_FOUND if the job does not exist, otherwise
\* with JOB_CLOSED if its status is not Open, otherwise with OWN_JOB if the
\* caller owns it, otherwise with ALREADY_APPLIED if the caller has an
\* application on it; a failed apply has created no application and left
\* applicantCount as it was; a successful apply has made each of its calls
\* once, of which one creates an Applied application of the caller and one
\* raises applicantCount by 1, and no other call changes an application or
\* a job.
C27_ApplyErrorsAndEffects ==
    /\ [][\A p \in Procs :
            Leaves(p, "apply", "ap_job") =>
                LET j == req[p].arg
                    refused(code) == pc'[p] = "done" /\ result'[p] = code
                IN IF j \notin DOMAIN jobs THEN refused("JOB_NOT_FOUND")
                   ELSE IF jobs[j].status # "Open" THEN refused("JOB_CLOSED")
                   ELSE IF jobs[j].createdBy = req[p].caller
                        THEN refused("OWN_JOB")
                   ELSE pc'[p] = "ap_find"]_vars
    /\ [][\A p \in Procs :
            Leaves(p, "apply", "ap_find") =>
                IF \E i \in AppIds :
                      /\ applications[i].jobId = req[p].arg
                      /\ applications[i].applicantId = req[p].caller
                THEN pc'[p] = "done" /\ result'[p] = "ALREADY_APPLIED"
                ELSE pc'[p] = "ap_create"]_vars
    /\ [][\A p \in Procs :
            (Steps(p) /\ req[p].kind = "apply") =>
                /\ pc'[p] = "done" \/ <<pc[p], pc'[p]>> \in ApplyOrder
                /\ (pc'[p] = "done" /\ result'[p] = "OK")
                       => pc[p] = "ap_populate"
                /\ applications' =
                       IF pc[p] = "ap_create"
                       THEN Append(applications,
                                [jobId |-> req[p].arg,
                                 applicantId |-> req[p].caller,
                                 status |-> "Applied"])
                       ELSE applications
                /\ jobs' =
                       IF pc[p] = "ap_inc"
                       THEN [jobs EXCEPT ![req[p].arg].applicantCount = @ + 1]
                       ELSE jobs]_vars
    /\ [](\A p \in Procs :
            (Done(p, "apply") /\ result[p] # "OK") => ~dirty[p])

\* A worker's second apply for a job has been refused with ALREADY_APPLIED:
\* the worker has the one Applied application the first apply created and
\* applicantCount is 1.
C27_Witness ==
    \E p \in Procs :
        /\ Done(p, "apply") /\ result[p] = "ALREADY_APPLIED"
        /\ \E i \in AppIds :
              /\ FindApplication(req[p].arg, req[p].caller) = {i}
              /\ applications[i].status = "Applied"
        /\ jobs[req[p].arg].applicantCount = 1

\* C28: a withdraw by the applicant on an application that is not Applied
\* fails with CANNOT_WITHDRAW and changes nothing; on an Applied application
\* it sets the status to Withdrawn and then lowers the applicantCount of the
\* application's job by 1, and changes nothing else: not the job's status,
\* not another application, not an engagement.
C28_WithdrawErrorsAndEffects ==
    /\ [][\A p \in Procs :
            (/\ Leaves(p, "withdraw", "wd_app")
             /\ req[p].arg \in AppIds
             /\ applications[req[p].arg].applicantId = req[p].caller)
            => IF applications[req[p].arg].status # "Applied"
               THEN /\ pc'[p] = "done"
                    /\ result'[p] = "CANNOT_WITHDRAW"
               ELSE pc'[p] = "wd_save"]_vars
    /\ [][\A p \in Procs :
            (Steps(p) /\ req[p].kind = "withdraw") =>
                LET a == req[p].arg IN
                /\ \/ pc'[p] = "done"
                   \/ <<pc[p], pc'[p]>> \in {<<"wd_app", "wd_save">>,
                                             <<"wd_save", "wd_dec">>}
                /\ (pc'[p] = "done" /\ result'[p] = "OK") => pc[p] = "wd_dec"
                /\ applications' =
                       IF pc[p] = "wd_save"
                       THEN [applications EXCEPT ![a].status = "Withdrawn"]
                       ELSE applications
                /\ jobs' =
                       IF pc[p] = "wd_dec"
                       THEN [jobs EXCEPT
                               ![applications[a].jobId].applicantCount = @ - 1]
                       ELSE jobs
                /\ UNCHANGED acceptedJobs]_vars
    /\ [](\A p \in Procs :
            (Done(p, "withdraw") /\ result[p] # "OK") => ~dirty[p])

\* A withdraw has returned success on an application of a job to which two
\* workers had applied: the application is Withdrawn, the other one is still
\* Applied, the job is still Open and its applicantCount is 1.
C28_Witness ==
    \E p \in Procs :
        /\ Done(p, "withdraw") /\ result[p] = "OK"
        /\ LET a == req[p].arg
               j == applications[a].jobId IN
             /\ applications[a].status = "Withdrawn"
             /\ \E i \in AppsOf(j) \ {a} : applications[i].status = "Applied"
             /\ jobs[j].status = "Open"
             /\ jobs[j].applicantCount = 1

\* The caller of request p is not the user the handler lets act on the
\* document the request names: the owner of the job (accept, reject, cancel,
\* close, update), the applicant (withdraw), the employer (complete).
Unauthorized(p) ==
    LET a == req[p].arg
        c == req[p].caller IN
    CASE req[p].kind \in {"accept", "reject"} ->
            a \in AppIds /\ jobs[applications[a].jobId].createdBy # c
      [] req[p].kind \in {"cancel", "close", "update"} ->
            a \in DOMAIN jobs /\ jobs[a].createdBy # c
      [] req[p].kind = "withdraw" ->
            a \in AppIds /\ applications[a].applicantId # c
      [] req[p].kind = "complete" ->
            a \in AcceptedIds /\ acceptedJobs[a].employerId # c
      [] OTHER -> FALSE

\* C29: a request of an unauthorized caller (accept, reject, cancel, close
\* or update by a user who does not own the job, withdraw by a user who is
\* not the applicant, complete by a user who is not the employer) fails with
\* NOT_AUTHORIZED at its first step and changes no Job, JobApplication,
\* AcceptedJob, Notification or User.rating.
C29_UnauthorizedChangesNothing ==
    /\ [][\A p \in Procs :
            (Steps(p) /\ Unauthorized(p))
            => /\ pc'[p] = "done"
               /\ result'[p] = "NOT_AUTHORIZED"
               /\ UNCHANGED <<jobs, applications, acceptedJobs,
                              notifications, pushes, users>>]_vars
    /\ [](\A p \in Procs :
            (pc[p] = "done" /\ result[p] = "NOT_AUTHORIZED")
            => ~dirty[p] /\ emitted[p] = NoEmitted)

\* A worker's update of a job of another user has been refused: the job has
\* the title it was created with.
C29_Witness ==
    \E p \in Procs :
        /\ Done(p, "update") /\ result[p] = "NOT_AUTHORIZED"
        /\ req[p].arg \in DOMAIN jobs
        /\ jobs[req[p].arg].createdBy # req[p].caller
        /\ jobs[req[p].arg].title = "t0"

\* C30: an update by the owner of a job that is Closed, Cancelled or
\* Completed fails and has written nothing; no step of an update changes the
\* status or the applicantCount of a job.
C30_TerminalJobIsNotEdited ==
    /\ [](\A p \in Procs :
            (/\ Done(p, "update")
             /\ req[p].arg \in DOMAIN jobs
             /\ jobs[req[p].arg].createdBy = req[p].caller
             /\ jobs[req[p].arg].status \in {"Closed", "Cancelled", "Completed"})
            => result[p] # "OK" /\ ~dirty[p])
    /\ [][\A p \in Procs :
            (Steps(p) /\ req[p].kind = "update")
            => \A j \in DOMAIN jobs :
                  /\ jobs'[j].status = jobs[j].status
                  /\ jobs'[j].applicantCount = jobs[j].applicantCount]_vars

(* ---------------- properties of the sequential scenario --------------- *)

\* C31: with requests served in turn on an Open job: when an apply returns
\* success the job's applicantCount is the number of applications made to it
\* (1 after the first worker, 2 after the second); when the employer's
\* accept of A returns success A is Accepted, every other application of the
\* job is Rejected, the job's one AcceptedJob is Active with A's applicant as
\* worker and the job is InProgress; when the complete returns success the
\* AcceptedJob and the job are Completed; when the employer's rate with
\* rating r has returned success the worker's rating is {average r, count
\* 1}; a further rate by the employer fails with ALREADY_RATED and leaves
\* every user's rating as it is.
C31_ScenarioStepByStep ==
    /\ [][\A p \in Procs :
            Returns(p, "apply") =>
                /\ jobs'[req[p].arg].applicantCount =
                       Cardinality({i \in DOMAIN applications' :
                                       applications'[i].jobId = req[p].arg})
                /\ applications'[loc[p].id].status = "Applied"
                /\ applications'[loc[p].id].applicantId = req[p].caller]_vars
    /\ [][\A p \in Procs :
            Returns(p, "accept") =>
                LET a == req[p].arg
                    j == applications[a].jobId IN
                /\ jobs[j].createdBy = req[p].caller
                /\ applications'[a].status = "Accepted"
                /\ \A i \in DOMAIN applications' :
                      (i # a /\ applications'[i].jobId = j)
                          => applications'[i].status = "Rejected"
                /\ \E e \in DOMAIN acceptedJobs' :
                      /\ \A f \in DOMAIN acceptedJobs' :
                            acceptedJobs'[f].jobId = j => f = e
                      /\ acceptedJobs'[e].jobId = j
                      /\ acceptedJobs'[e].status = "Active"
                      /\ acceptedJobs'[e].workerId = applications[a].applicantId
                      /\ acceptedJobs'[e].employerId = req[p].caller
                /\ jobs'[j].status = "InProgress"]_vars
    /\ [][\A p \in Procs :
            Returns(p, "complete") =>
                /\ acceptedJobs'[req[p].arg].status = "Completed"
                /\ jobs'[acceptedJobs'[req[p].arg].jobId].status
                       = "Completed"]_vars
    /\ [](\A p \in Procs :
            (Done(p, "rate") /\ result[p] = "OK" /\ ByEmployer(p))
            => /\ acceptedJobs[req[p].arg].employerRating = req[p].rating
               /\ users[acceptedJobs[req[p].arg].workerId] =
                     [count |-> 1,
                      average |-> [num |-> req[p].rating, den |-> 1]])
    /\ [][\A p \in Procs :
            (/\ Leaves(p, "rate", "rt_find")
             /\ req[p].arg \in AcceptedIds
             /\ ByEmployer(p)
             /\ acceptedJobs[req[p].arg].employerRating # 0)
            => /\ pc'[p] = "done"
               /\ result'[p] = "ALREADY_RATED"
               /\ UNCHANGED <<users, acceptedJobs>>]_vars

\* The end of the scenario: two workers have applied, one is Accepted and
\* the other Rejected, the engagement and the job are Completed, the
\* employer has rated the worker 5 and the employer's second rate has just
\* been refused; the worker's rating is {average 5, count 1}.
C31_Witness ==
    \E p \in Procs :
        /\ Done(p, "rate") /\ result[p] = "ALREADY_RATED"
        /\ ByEmployer(p)
        /\ LET e == req[p].arg
               j == acceptedJobs[e].jobId
               w == acceptedJobs[e].workerId IN
             /\ jobs[j].status = "Completed"
             /\ jobs[j].applicantCount = 2
             /\ acceptedJobs[e].status = "Completed"
             /\ acceptedJobs[e].employerRating = 5
             /\ users[w] = [count |-> 1, average |-> [num |-> 5, den |-> 1]]
             /\ \E a, b \in AppsOf(j) :
                   /\ applications[a].applicantId = w
                   /\ applications[a].status = "Accepted"
                   /\ b # a
                   /\ applications[b].status = "Rejected"

(* ---------------- properties of accept and its notification ----------- *)

\* C32: at the moment an accept request records its job_accepted
\* notification for application A of job J, A is Accepted, an AcceptedJob of
\* J with A's applicant as worker exists and J is InProgress; an accept
\* request that has ended in failure has recorded no notification.
C32_NotifiedAfterMutation ==
    /\ [][\A p \in Procs :
            (Leaves(p, "accept", "ha_notify")
                /\ notifications' # notifications)
            => LET a == req[p].arg
                   j == applications[a].jobId IN
               /\ applications[a].status = "Accepted"
               /\ \E e \in FindAccepted(j) :
                     acceptedJobs[e].workerId = applications[a].applicantId
               /\ jobs[j].status = "InProgress"]_vars
    /\ [](\A p \in Procs :
            (Done(p, "accept") /\ result[p] # "OK")
            => emitted[p].recorded = 0)

\* An accept has recorded its notification and returned success: the
\* job_accepted record names the application, which is Accepted, and the
\* engagement of the job, which is InProgress.
C32_Witness ==
    \E p \in Procs :
        /\ Done(p, "accept") /\ result[p] = "OK"
        /\ emitted[p].recorded = 1
        /\ LET a == req[p].arg
               j == applications[a].jobId IN
             /\ applications[a].status = "Accepted"
             /\ jobs[j].status = "InProgress"
             /\ \E e \in FindAccepted(j), n \in BagToSet(notifications) :
                   /\ n.type = "job_accepted"
                   /\ n.applicationId = a
                   /\ n.acceptedJobId = e
                   /\ n.userId = acceptedJobs[e].workerId

\* C33: every step of a cancelJob request leaves alone each AcceptedJob whose
\* status is Disputed, Completed or Cancelled when the step is taken; an
\* engagement the request changes was Active and of the cancelled job at the
\* time of the cascade write, and is Cancelled by the caller after it.
C33_CancelTouchesOnlyActive ==
    [][\A p \in Procs :
          (Steps(p) /\ req[p].kind = "cancel")
          => /\ DOMAIN acceptedJobs' = DOMAIN acceptedJobs
             /\ \A e \in AcceptedIds :
                  /\ acceptedJobs[e].status \in {"Disputed", "Completed", "Cancelled"}
                     => acceptedJobs'[e] = acceptedJobs[e]
                  /\ acceptedJobs'[e] # acceptedJobs[e]
                     => /\ pc[p] = "cn_accepted"
                        /\ acceptedJobs[e].status = "Active"
                        /\ acceptedJobs[e].jobId = req[p].arg
                        /\ acceptedJobs'[e] =
                             [acceptedJobs[e] EXCEPT !.status = "Cancelled",
                                                     !.cancelledBy = req[p].caller]]_vars

\* A cancelJob has succeeded on a job whose engagement had been completed, and
\* another one on a job whose engagement was Active.
C33_Witness ==
    \E p, q \in Procs :
        /\ Done(p, "cancel") /\ result[p] = "OK"
        /\ Done(q, "cancel") /\ result[q] = "OK"
        /\ \E e, f \in AcceptedIds :
              /\ acceptedJobs[e].jobId = req[p].arg
              /\ acceptedJobs[e].status = "Completed"
              /\ acceptedJobs[f].jobId = req[q].arg
              /\ acceptedJobs[f].status = "Cancelled"

\* C34: in every reachable state, under any interleaving of accept requests,
\* at most one JobApplication of a job has status Accepted.
C34_AtMostOneAcceptedApplication ==
    \A j \in Jobs :
        Cardinality({a \in AppsOf(j) : applications[a].status = "Accepted"}) <= 1

\* C35: in every state with no request in flight every AcceptedJob is
\* consistent with its job and application: its employerId is the owner of
\* its job, its workerId differs from its employerId, and its workerId is the
\* applicant of an application on that job whose status is Accepted.
C35_EngagementMatchesApplication ==
    Quiescent =>
        \A e \in AcceptedIds :
            LET aj == acceptedJobs[e] IN
            /\ aj.employerId = jobs[aj.jobId].createdBy
            /\ aj.workerId # aj.employerId
            /\ \E a \in AppsOf(aj.jobId) :
                  /\ applications[a].applicantId = aj.workerId
                  /\ applications[a].status = "Accepted"

\* C36: in every state with no request in flight every JobApplication with
\* status Applied belongs to a Job whose status is Open.
C36_AppliedOnlyOnOpenJob ==
    Quiescent =>
        \A a \in AppIds :
            applications[a].status = "Applied"
            => jobs[applications[a].jobId].status = "Open"

\* C37: an accept request succeeds only on a job that is Open: the step of an
\* accept that creates the AcceptedJob, and the step that saves the job as
\* InProgress, are taken on a job whose stored status is Open, which is also
\* the status the request read.
C37_AcceptOnlyOnOpenJob ==
    [][\A p \in Procs :
          (/\ req[p].kind = "accept"
           /\ Steps(p)
           /\ \/ acceptedJobs' # acceptedJobs
              \/ jobs' # jobs)
          => /\ jobs[applications[req[p].arg].jobId].status = "Open"
             /\ loc[p].jobSt = "Open"]_vars

\* C38: every change of AcceptedJob.status is Active -> Completed, by a
\* complete request, or Active -> Cancelled, by a cancelJob request: Completed
\* and Cancelled are never left and Disputed is never reached.
C38_EngagementStatusMonotonic ==
    [][\A e \in AcceptedIds :
          acceptedJobs'[e].status # acceptedJobs[e].status
          => /\ acceptedJobs[e].status = "Active"
             /\ \E p \in Procs :
                   /\ Steps(p)
                   /\ \/ /\ req[p].kind = "complete"
                         /\ acceptedJobs'[e].status = "Completed"
                      \/ /\ req[p].kind = "cancel"
                         /\ acceptedJobs'[e].status = "Cancelled"]_vars

\* C39: Job.applicantCount is never negative in any reachable state, under
\* any interleaving of the requests.
C39_ApplicantCountNotNegative ==
    \A j \in DOMAIN jobs : jobs[j].applicantCount >= 0

\* The apply request p returns with this step, having created nothing, while
\* its caller has an application on the job: a later apply of that worker.
Reapplies(p) ==
    /\ req[p].kind = "apply"
    /\ Steps(p)
    /\ pc'[p] = "done"
    /\ ~dirty[p]
    /\ FindApplication(req[p].arg, req[p].caller) # {}

\* C40: once a worker has an application on a job, in any status, every
\* later apply by that worker to that job fails with ALREADY_APPLIED
\* (DuplicateApplication) and no second application is created.
C40_ReapplyIsDuplicate ==
    /\ [][\A p \in Procs :
            Reapplies(p) => /\ result'[p] = "ALREADY_APPLIED"
                            /\ applications' = applications]_vars
    /\ [](\A j \in Jobs, u \in Users : Cardinality(FindApplication(j, u)) <= 1)

\* C40 as the code has it: once a worker has an application on a job, in any
\* status, every later apply by that worker to that job fails, with
\* ALREADY_APPLIED while the job is Open and with JOB_CLOSED once it is not,
\* and no second application is created.
C40_ReapplyIsRefused ==
    /\ [][\A p \in Procs :
            Reapplies(p) => /\ result'[p] = IF jobs[req[p].arg].status = "Open"
                                            THEN "ALREADY_APPLIED"
                                            ELSE "JOB_CLOSED"
                            /\ applications' = applications]_vars
    /\ [](\A j \in Jobs, u \in Users : Cardinality(FindApplication(j, u)) <= 1)

\* A worker whose application on an Open job is Withdrawn or Rejected has
\* applied again and been refused with ALREADY_APPLIED.
C40_Witness ==
    \E p \in Procs :
        /\ Done(p, "apply") /\ result[p] = "ALREADY_APPLIED"
        /\ jobs[req[p].arg].status = "Open"
        /\ \E i \in AppIds :
              /\ FindApplication(req[p].arg, req[p].caller) = {i}
              /\ applications[i].status \in {"Withdrawn", "Rejected"}

====
